---- MODULE Spec2Model ----
(***************************************************************************)
(* Verification model of findminhs (minimum hitting set solver).           *)
(*                                                                         *)
(* Containers: SkipVec (skipvec.rs), ContiguousIdxVec (cont_idx_vec.rs),   *)
(* the reversible hypergraph Instance (instance.rs).  Indices are 0-based  *)
(* as in the source: a vector of length n is a function on 0..n-1.        *)
(***************************************************************************)
EXTENDS Integers, Sequences, FiniteSets, TLC

VARIABLES
    sv,          \* SpecSkip, SpecCiv: the SkipVec or ContiguousIdxVec under test
    svStack,     \* SpecSkip: slots deleted and not yet restored, in delete order
    inst,        \* SpecInst / SpecSolve: the Instance
    inst0,       \* the Instance as loaded
    ops,         \* SpecInst: undo stack of the deletes not yet restored
    trie,        \* SpecTrie: the trie under test
    inserted,    \* SpecTrie: the sets inserted so far, with their marks
    answer,      \* the last query made and what it returned
    solver       \* SpecSolve: the branch-and-bound state (hitting sets, call stack)

vars == <<sv, svStack, inst, inst0, ops, trie, inserted, answer, solver>>

\* The variables a specification leaves idle
outsideSkip == <<inst, inst0, ops, trie, inserted, answer, solver>>
outsideInst == <<sv, svStack, trie, inserted, answer, solver>>
outsideTrie == <<sv, svStack, inst, inst0, ops, solver>>

\* Bounds of the model
MaxSlots == 5
MaxNodes == 3
MaxEdges == 3
MaxOps == 4
MaxKeys == 3
MaxInserts == 3

\* small_indices.rs: const INVALID: Self = Self(u32::max_value()).  TLC's integers
\* end at 2^31 - 1, so the sentinel is the largest of those: like the source's it
\* is no valid index and compares greater than every valid index.
INVALID == 2147483647

Idle == [idle |-> TRUE]

(***************************************************************************)
(* Generic helpers                                                         *)
(***************************************************************************)
Swap(f, i, j) == [f EXCEPT ![i] = f[j], ![j] = f[i]]

SeqToSet(s) == {s[i] : i \in 1..Len(s)}

RECURSIVE SetToAscSeq(_)
SetToAscSeq(S) ==
    IF S = {} THEN <<>>
    ELSE LET m == CHOOSE x \in S : \A y \in S : x <= y
         IN <<m>> \o SetToAscSeq(S \ {m})

Pop(s) == SubSeq(s, 1, Len(s) - 1)
Top(s) == s[Len(s)]

\* A Vec as a function on 0..len-1
VecLen(f) == Cardinality(DOMAIN f)
VecPush(f, x) == [i \in 0..VecLen(f) |-> IF i < VecLen(f) THEN f[i] ELSE x]

Max(S) == CHOOSE x \in S : \A y \in S : y <= x
Min(S) == CHOOSE x \in S : \A y \in S : x <= y

Reverse(s) == [i \in 1..Len(s) |-> s[Len(s) + 1 - i]]

\* All orders in which the elements of a finite set can be listed.
RECURSIVE Perms(_)
Perms(S) ==
    IF S = {} THEN {<<>>}
    ELSE UNION {{<<x>> \o p : p \in Perms(S \ {x})} : x \in S}

(***************************************************************************)
(* SkipVec                                                                 *)
(***************************************************************************)
Entry_new(value) ==
    [prev |-> INVALID, next |-> INVALID, value |-> value, deleted |-> FALSE]

from_entry_vec(vals) ==
    LET n == Len(vals) IN
    [entries |-> [i \in 0..(n - 1) |->
                    [prev    |-> IF i = 0 THEN INVALID ELSE i - 1,
                     next    |-> IF i = n - 1 THEN INVALID ELSE i + 1,
                     value   |-> vals[i + 1],
                     deleted |-> FALSE]],
     first     |-> IF n = 0 THEN INVALID ELSE 0,
     last      |-> IF n = 0 THEN INVALID ELSE n - 1,
     len       |-> n,
     deletions |-> <<>>]

\* Mutant: the branch that moves `last` back is missing.
SkipVec_delete_keeps_last(s, index) ==
    LET prev == s.entries[index].prev
        next == s.entries[index].next
        e1 == [s.entries EXCEPT ![index].deleted = TRUE]
        e2 == IF prev # INVALID THEN [e1 EXCEPT ![prev].next = next] ELSE e1
        e3 == IF next # INVALID THEN [e2 EXCEPT ![next].prev = prev] ELSE e2
    IN [entries   |-> e3,
        first     |-> IF prev # INVALID THEN s.first ELSE next,
        last      |-> s.last,
        len       |-> s.len - 1,
        deletions |-> Append(s.deletions, index)]

SkipVec_delete(s, index) ==
    LET prev == s.entries[index].prev
        next == s.entries[index].next
        e1 == [s.entries EXCEPT ![index].deleted = TRUE]
        e2 == IF prev # INVALID THEN [e1 EXCEPT ![prev].next = next] ELSE e1
        e3 == IF next # INVALID THEN [e2 EXCEPT ![next].prev = prev] ELSE e2
    IN [entries   |-> e3,
        first     |-> IF prev # INVALID THEN s.first ELSE next,
        last      |-> IF next # INVALID THEN s.last ELSE prev,
        len       |-> s.len - 1,
        deletions |-> Append(s.deletions, index)]

\* Mutant: the branch that makes the restored slot `first` again is missing.
SkipVec_restore_keeps_first(s, index) ==
    LET prev == s.entries[index].prev
        next == s.entries[index].next
        e1 == [s.entries EXCEPT ![index].deleted = FALSE]
        e2 == IF prev # INVALID THEN [e1 EXCEPT ![prev].next = index] ELSE e1
        e3 == IF next # INVALID THEN [e2 EXCEPT ![next].prev = index] ELSE e2
    IN [entries   |-> e3,
        first     |-> s.first,
        last      |-> IF next # INVALID THEN s.last ELSE index,
        len       |-> s.len + 1,
        deletions |-> IF s.deletions = <<>> THEN <<>>
                      ELSE SubSeq(s.deletions, 1, Len(s.deletions) - 1)]

SkipVec_restore(s, index) ==
    LET prev == s.entries[index].prev
        next == s.entries[index].next
        e1 == [s.entries EXCEPT ![index].deleted = FALSE]
        e2 == IF prev # INVALID THEN [e1 EXCEPT ![prev].next = index] ELSE e1
        e3 == IF next # INVALID THEN [e2 EXCEPT ![next].prev = index] ELSE e2
    IN [entries   |-> e3,
        first     |-> IF prev # INVALID THEN s.first ELSE index,
        last      |-> IF next # INVALID THEN s.last ELSE index,
        len       |-> s.len + 1,
        deletions |-> IF s.deletions = <<>> THEN <<>>
                      ELSE SubSeq(s.deletions, 1, Len(s.deletions) - 1)]

\* Iter::next, repeated until None: the slot indices it yields.
RECURSIVE Iter_next(_, _, _)
Iter_next(s, front, back) ==
    IF front = INVALID THEN <<>>
    ELSE <<front>> \o
         Iter_next(s, IF front = back THEN INVALID ELSE s.entries[front].next, back)

\* Iter::next_back, repeated until None.
RECURSIVE Iter_next_back(_, _, _)
Iter_next_back(s, front, back) ==
    IF front = INVALID THEN <<>>
    ELSE <<back>> \o
         Iter_next_back(s,
                        IF front = back THEN INVALID ELSE front,
                        IF front = back THEN back ELSE s.entries[back].prev)

SkipVec_iter(s) == Iter_next(s, s.first, s.last)
SkipVec_iter_rev(s) == Iter_next_back(s, s.first, s.last)
SkipVec_len(s) == s.len

(***************************************************************************)
(* ContiguousIdxVec                                                        *)
(***************************************************************************)
Civ_from_iter(n) ==
    [data |-> [i \in 0..(n - 1) |-> i], indices |-> [i \in 0..(n - 1) |-> i], len |-> n]

Civ_is_deleted(c, id) == c.indices[id] >= c.len

\* Mutant: the position table is not updated.
Civ_delete_keeps_indices(c, id) ==
    LET idx == c.indices[id]
    IN [data    |-> Swap(c.data, idx, c.len - 1),
        indices |-> c.indices,
        len     |-> c.len - 1]

Civ_delete(c, id) ==
    LET idx == c.indices[id]
        last_id == c.data[c.len - 1]
    IN [data    |-> Swap(c.data, idx, c.len - 1),
        indices |-> Swap(c.indices, id, last_id),
        len     |-> c.len - 1]

Civ_restore(c, id) ==
    LET idx == c.indices[id]
        after_last_id == c.data[c.len]
    IN [data    |-> Swap(c.data, idx, c.len),
        indices |-> Swap(c.indices, id, after_last_id),
        len     |-> c.len + 1]

\* Deref: the live prefix data[..len], in stored order.
Civ_deref(c) == [i \in 1..c.len |-> c.data[i - 1]]

(***************************************************************************)
(* Instance                                                                *)
(***************************************************************************)
FoldSeq(Op(_, _), base, s) ==
    LET F[i \in 0..Len(s)] == IF i = 0 THEN base ELSE Op(F[i - 1], s[i])
    IN F[Len(s)]

\* Vec::sort_unstable_by on values that are equal whenever they compare equal.
RECURSIVE SortAsc(_)
SortAsc(s) ==
    IF s = <<>> THEN <<>>
    ELSE LET i == CHOOSE k \in 1..Len(s) : \A j \in 1..Len(s) : s[k] <= s[j]
         IN <<s[i]>> \o SortAsc(SubSeq(s, 1, i - 1) \o SubSeq(s, i + 1, Len(s)))

\* Mutant: an edge without vertices is accepted.
handle_edge_accepts_empty(num_nodes, node_indices) ==
    IF \E i \in 1..Len(node_indices) : ~(node_indices[i] < num_nodes)
    THEN [is_ok |-> FALSE]
    ELSE LET sorted == SortAsc(node_indices)
         IN [is_ok |-> TRUE,
             incidences |-> from_entry_vec([i \in 1..Len(sorted) |-> <<sorted[i], INVALID>>])]

\* ParsedEdgeHandler::handle_edge with SkipVec::try_sorted_from: the incidence
\* list of one edge (Ok), or Err.
handle_edge(num_nodes, node_indices) ==
    IF \E i \in 1..Len(node_indices) : ~(node_indices[i] < num_nodes)
    THEN [is_ok |-> FALSE]
    ELSE IF Len(node_indices) = 0 THEN [is_ok |-> FALSE]
    ELSE LET sorted == SortAsc(node_indices)
         IN [is_ok |-> TRUE,
             incidences |-> from_entry_vec([i \in 1..Len(sorted) |-> <<sorted[i], INVALID>>])]

\* SkipVec::with_len: len default values.
SkipVec_with_len(len) == from_entry_vec([i \in 1..len |-> <<INVALID, INVALID>>])

\* Instance::load, the body of the loop over the entries of the edges: st holds
\* node_incidences (ni), edge_incidences (ei) and rem_node_degrees (rem).
\* Mutant: the edge side stores its own slot instead of the node-side slot.
load_fill_entry_own_slot(st, pr) ==
    LET edge == pr[1]
        edge_entry_idx == pr[2]
        node == st.ei[edge].entries[edge_entry_idx].value[1]
        node_entry_idx == st.ni[node].len - st.rem[node]
    IN [ni  |-> [st.ni EXCEPT ![node].entries[node_entry_idx].value =
                     <<edge, edge_entry_idx>>],
        ei  |-> [st.ei EXCEPT ![edge].entries[edge_entry_idx].value =
                     <<node, edge_entry_idx>>],
        rem |-> [st.rem EXCEPT ![node] = @ - 1]]

load_fill_entry(st, pr) ==
    LET edge == pr[1]
        edge_entry_idx == pr[2]
        node == st.ei[edge].entries[edge_entry_idx].value[1]
        node_entry_idx == st.ni[node].len - st.rem[node]
    IN [ni  |-> [st.ni EXCEPT ![node].entries[node_entry_idx].value =
                     <<edge, edge_entry_idx>>],
        ei  |-> [st.ei EXCEPT ![edge].entries[edge_entry_idx].value =
                     <<node, node_entry_idx>>],
        rem |-> [st.rem EXCEPT ![node] = @ - 1]]

\* Instance::load; edges is the sequence of vertex lists handed to handle_edge.
\* The result is Err or Ok(instance).
load(num_nodes, edges) ==
    LET num_edges == Len(edges)
        results == [e \in 0..(num_edges - 1) |-> handle_edge(num_nodes, edges[e + 1])]
    IN IF \E e \in 0..(num_edges - 1) : ~results[e].is_ok THEN [is_ok |-> FALSE]
       ELSE
       LET handled == [e \in 0..(num_edges - 1) |-> results[e].incidences]
           node_degrees == [v \in 0..(num_nodes - 1) |->
                Cardinality({<<e, p>> \in (0..(num_edges - 1)) \X (0..MaxNodes) :
                    p < handled[e].len /\ handled[e].entries[p].value[1] = v})]
           pairs == FoldSeq(LAMBDA acc, e :
                        acc \o [p \in 1..handled[e].len |-> <<e, p - 1>>],
                        <<>>, [e \in 1..num_edges |-> e - 1])
           filled == FoldSeq(load_fill_entry,
                        [ni  |-> [v \in 0..(num_nodes - 1) |-> SkipVec_with_len(node_degrees[v])],
                         ei  |-> handled,
                         rem |-> node_degrees],
                        pairs)
       IN [is_ok |-> TRUE,
           instance |-> [nodes |-> Civ_from_iter(num_nodes),
                         edges |-> Civ_from_iter(num_edges),
                         node_incidences |-> filled.ni,
                         edge_incidences |-> filled.ei]]

num_edges(I) == I.edges.len
num_nodes_total(I) == Cardinality(DOMAIN I.node_incidences)
num_edges_total(I) == Cardinality(DOMAIN I.edge_incidences)

\* Instance::node: the edges incident to a node, in iteration order.
node(I, v) ==
    LET it == SkipVec_iter(I.node_incidences[v])
    IN [i \in 1..Len(it) |-> I.node_incidences[v].entries[it[i]].value[1]]

\* Instance::edge: the nodes incident to an edge, in iteration order.
edge(I, e) ==
    LET it == SkipVec_iter(I.edge_incidences[e])
    IN [i \in 1..Len(it) |-> I.edge_incidences[e].entries[it[i]].value[1]]

nodes(I) == Civ_deref(I.nodes)
edges(I) == Civ_deref(I.edges)
node_degree(I, v) == SkipVec_len(I.node_incidences[v])
edge_size(I, e) == SkipVec_len(I.edge_incidences[e])

\* Mutant: the node leaves the alive list but stays linked in its edges.
delete_node_keeps_entries(I, v) ==
    [I EXCEPT !.nodes = Civ_delete(I.nodes, v)]

delete_node(I, v) ==
    LET nv == I.node_incidences[v]
        step(ei, idx) == [ei EXCEPT ![nv.entries[idx].value[1]] =
                                SkipVec_delete(@, nv.entries[idx].value[2])]
    IN [I EXCEPT !.edge_incidences = FoldSeq(step, I.edge_incidences, SkipVec_iter(nv)),
                 !.nodes = Civ_delete(I.nodes, v)]

\* Mutant: the edge leaves the alive list but stays linked in its nodes.
delete_edge_keeps_entries(I, e) ==
    [I EXCEPT !.edges = Civ_delete(I.edges, e)]

delete_edge(I, e) ==
    LET ev == I.edge_incidences[e]
        step(ni, idx) == [ni EXCEPT ![ev.entries[idx].value[1]] =
                                SkipVec_delete(@, ev.entries[idx].value[2])]
    IN [I EXCEPT !.node_incidences = FoldSeq(step, I.node_incidences, SkipVec_iter(ev)),
                 !.edges = Civ_delete(I.edges, e)]

restore_node(I, v) ==
    LET nv == I.node_incidences[v]
        step(ei, idx) == [ei EXCEPT ![nv.entries[idx].value[1]] =
                                SkipVec_restore(@, nv.entries[idx].value[2])]
    IN [I EXCEPT !.edge_incidences = FoldSeq(step, I.edge_incidences, SkipVec_iter_rev(nv)),
                 !.nodes = Civ_restore(I.nodes, v)]

restore_edge(I, e) ==
    LET ev == I.edge_incidences[e]
        step(ni, idx) == [ni EXCEPT ![ev.entries[idx].value[1]] =
                                SkipVec_restore(@, ev.entries[idx].value[2])]
    IN [I EXCEPT !.node_incidences = FoldSeq(step, I.node_incidences, SkipVec_iter_rev(ev)),
                 !.edges = Civ_restore(I.edges, e)]

\* Mutant: the list taken out of the node's place is not put back.
delete_incident_edges_taken(I, v) ==
    LET incidence == I.node_incidences[v]
        taken == [I EXCEPT !.node_incidences[v] = from_entry_vec(<<>>)]
        step(J, idx) == delete_edge(J, incidence.entries[idx].value[1])
        after == FoldSeq(step, taken, SkipVec_iter(incidence))
    IN after

\* mem::take leaves an empty list in place of the node's incidence while the
\* edges are deleted, and the saved list is put back afterwards.
delete_incident_edges(I, v) ==
    LET incidence == I.node_incidences[v]
        taken == [I EXCEPT !.node_incidences[v] = from_entry_vec(<<>>)]
        step(J, idx) == delete_edge(J, incidence.entries[idx].value[1])
        after == FoldSeq(step, taken, SkipVec_iter(incidence))
    IN [after EXCEPT !.node_incidences[v] = incidence]

\* Mutant: the edges incident to the node stay deleted.
restore_incident_edges_none(I, v) == I

restore_incident_edges(I, v) ==
    LET incidence == I.node_incidences[v]
        taken == [I EXCEPT !.node_incidences[v] = from_entry_vec(<<>>)]
        step(J, idx) == restore_edge(J, incidence.entries[idx].value[1])
        after == FoldSeq(step, taken, SkipVec_iter_rev(incidence))
    IN [after EXCEPT !.node_incidences[v] = incidence]

(***************************************************************************)
(* Inputs                                                                  *)
(***************************************************************************)
\* Vertex lists of the edges of well-formed inputs: non-empty, ascending.
EdgeLists(n) == {SetToAscSeq(S) : S \in (SUBSET (0..(n - 1))) \ {{}}}

RECURSIVE SeqsUpTo(_, _)
SeqsUpTo(S, k) ==
    IF k = 0 THEN {<<>>}
    ELSE LET shorter == SeqsUpTo(S, k - 1)
         IN shorter \cup {Append(s, x) : s \in {t \in shorter : Len(t) = k - 1}, x \in S}

Inputs == {<<n, es>> : n \in 0..MaxNodes, es \in SeqsUpTo(EdgeLists(MaxNodes), MaxEdges)}

WellFormedInputs ==
    {in \in Inputs : \A i \in 1..Len(in[2]) : in[2][i] \in EdgeLists(in[1])}

(***************************************************************************)
(* SpecSkip: one SkipVec under LIFO-disciplined delete / restore           *)
(***************************************************************************)
InstIdle == inst = Idle /\ inst0 = Idle /\ ops = <<>>
SkipIdle == sv = Idle /\ svStack = <<>>
TrieIdle == trie = Idle /\ inserted = <<>> /\ answer = Idle
SolverIdle == solver = Idle

InitSkip ==
    /\ \E n \in 0..MaxSlots : sv = from_entry_vec([i \in 1..n |-> i - 1])
    /\ svStack = <<>>
    /\ InstIdle
    /\ TrieIdle
    /\ SolverIdle

SvDelete(i) ==
    /\ i \notin SeqToSet(svStack)
    /\ sv' = SkipVec_delete(sv, i)
    /\ svStack' = Append(svStack, i)
    /\ UNCHANGED outsideSkip

SvRestore ==
    /\ svStack # <<>>
    /\ sv' = SkipVec_restore(sv, svStack[Len(svStack)])
    /\ svStack' = SubSeq(svStack, 1, Len(svStack) - 1)
    /\ UNCHANGED outsideSkip

NextSkip ==
    \/ \E i \in DOMAIN sv.entries : SvDelete(i)
    \/ SvRestore

SpecSkip == InitSkip /\ [][NextSkip]_vars

(***************************************************************************)
(* SpecInst: an Instance under LIFO-disciplined delete / restore           *)
(***************************************************************************)
AliveNodes(I) == {I.nodes.data[i] : i \in 0..(I.nodes.len - 1)}
AliveEdges(I) == {I.edges.data[i] : i \in 0..(I.edges.len - 1)}

InitInst ==
    /\ \E in \in WellFormedInputs : inst = load(in[1], in[2]).instance
    /\ inst0 = inst
    /\ ops = <<>>
    /\ SkipIdle
    /\ TrieIdle
    /\ SolverIdle

DeleteNode(v) ==
    /\ Len(ops) < MaxOps
    /\ ~Civ_is_deleted(inst.nodes, v)
    /\ inst' = delete_node(inst, v)
    /\ ops' = Append(ops, <<"node", v>>)
    /\ UNCHANGED <<inst0, outsideInst>>

DeleteEdge(e) ==
    /\ Len(ops) < MaxOps
    /\ ~Civ_is_deleted(inst.edges, e)
    /\ inst' = delete_edge(inst, e)
    /\ ops' = Append(ops, <<"edge", e>>)
    /\ UNCHANGED <<inst0, outsideInst>>

\* As the callers use it: on a deleted node whose listed edges are all alive.
DeleteIncidentEdges(v) ==
    /\ Len(ops) < MaxOps
    /\ Civ_is_deleted(inst.nodes, v)
    /\ \A e \in SeqToSet(node(inst, v)) : ~Civ_is_deleted(inst.edges, e)
    /\ inst' = delete_incident_edges(inst, v)
    /\ ops' = Append(ops, <<"incident", v>>)
    /\ UNCHANGED <<inst0, outsideInst>>

Restore ==
    /\ ops # <<>>
    /\ inst' = CASE Top(ops)[1] = "node" -> restore_node(inst, Top(ops)[2])
                  [] Top(ops)[1] = "edge" -> restore_edge(inst, Top(ops)[2])
                  [] OTHER -> restore_incident_edges(inst, Top(ops)[2])
    /\ ops' = Pop(ops)
    /\ UNCHANGED <<inst0, outsideInst>>

NextInst ==
    \/ \E v \in DOMAIN inst.node_incidences : DeleteNode(v)
    \/ \E e \in DOMAIN inst.edge_incidences : DeleteEdge(e)
    \/ \E v \in DOMAIN inst.node_incidences : DeleteIncidentEdges(v)
    \/ Restore

SpecInst == InitInst /\ [][NextInst]_vars

(***************************************************************************)
(* Properties of the containers and the instance                           *)
(***************************************************************************)
SvAlive == {i \in DOMAIN sv.entries : i \notin SeqToSet(svStack)}

\* C3: under LIFO-disciplined delete / restore, forward iteration of a SkipVec
\* yields exactly the slots not deleted, in their initial (ascending) order,
\* reverse iteration yields them in the opposite order, and len() is their number.
C3_IterationIsAliveSlots ==
    sv # Idle =>
        /\ SkipVec_iter(sv) = SetToAscSeq(SvAlive)
        /\ SkipVec_iter_rev(sv) = Reverse(SetToAscSeq(SvAlive))
        /\ SkipVec_len(sv) = Cardinality(SvAlive)

\* A list with its first and its last slot deleted, an inner one too, and a
\* slot left to iterate.
C3_Witness ==
    /\ sv # Idle
    /\ Len(svStack) >= 3
    /\ 0 \in SeqToSet(svStack)
    /\ (Cardinality(DOMAIN sv.entries) - 1) \in SeqToSet(svStack)
    /\ SvAlive # {}

\* The slot of a list is in the list's live chain.
Linked(s, i) == i \in SeqToSet(SkipVec_iter(s))

\* The incidences of the instance: edge e, slot p of V(e), vertex v, slot r of N(v).
Incidences(I) ==
    {[e |-> e, p |-> p,
      v |-> I.edge_incidences[e].entries[p].value[1],
      r |-> I.edge_incidences[e].entries[p].value[2]] :
        <<e, p>> \in {ep \in (DOMAIN I.edge_incidences) \X (0..MaxNodes) :
                        ep[2] \in DOMAIN I.edge_incidences[ep[1]].entries}}

\* The instance without the storage order of its two alive lists.
Unordered(I) ==
    [alive_nodes |-> AliveNodes(I), alive_edges |-> AliveEdges(I),
     node_incidences |-> I.node_incidences, edge_incidences |-> I.edge_incidences]

\* C2 as stated: once every delete has been undone in reverse order the instance
\* equals the loaded one, the order of nodes() and edges() included.
C2_IdenticalAfterUndo == (inst # Idle /\ ops = <<>>) => inst = inst0

\* C2 amended: once every delete has been undone in reverse order, the alive
\* vertex and edge sets, every incidence list (chain, order, stored pairs) and
\* the degrees equal those of the loaded instance; the order in which nodes()
\* and edges() list the alive items may differ.
C2_SameUpToAliveOrder ==
    (inst # Idle /\ ops = <<>>) =>
        /\ Unordered(inst) = Unordered(inst0)
        /\ \A v \in DOMAIN inst.node_incidences : node(inst, v) = node(inst0, v)
        /\ \A e \in DOMAIN inst.edge_incidences : edge(inst, e) = edge(inst0, e)

\* Everything has been undone and nodes() or edges() lists in another order.
C2_Witness == inst # Idle /\ ops = <<>> /\ inst # inst0

\* C4 as stated: the two entries of an incidence are both in their live chains
\* or both out of them.
C4_BothOrNeither ==
    inst # Idle =>
        \A c \in Incidences(inst) :
            Linked(inst.edge_incidences[c.e], c.p) <=> Linked(inst.node_incidences[c.v], c.r)

\* C4 amended: the two entries of an incidence are both in their live chains
\* exactly when the vertex and the edge are both alive; when the vertex or the
\* edge is deleted exactly one of the two entries is unlinked (the list of the
\* deleted item keeps its own entries).
C4_BothIffBothAlive ==
    inst # Idle =>
        \A c \in Incidences(inst) :
            LET in_edge == Linked(inst.edge_incidences[c.e], c.p)
                in_node == Linked(inst.node_incidences[c.v], c.r)
                alive == ~Civ_is_deleted(inst.nodes, c.v) /\ ~Civ_is_deleted(inst.edges, c.e)
            IN /\ (in_edge /\ in_node) <=> alive
               /\ in_edge \/ in_node

\* A vertex and its incident edges are deleted while another incidence is alive.
C4_Witness ==
    /\ inst # Idle
    /\ \E i \in 1..Len(ops) : ops[i][1] = "incident"
    /\ \E c \in Incidences(inst) : Civ_is_deleted(inst.edges, c.e)
    /\ \E c \in Incidences(inst) :
           ~Civ_is_deleted(inst.nodes, c.v) /\ ~Civ_is_deleted(inst.edges, c.e)

\* C5: the back-reference of each entry locates its mirror entry, from the edge
\* side and from the node side, for alive and deleted slots alike, and the
\* stored pairs are those written by load.
C5_BackRefsMirror ==
    inst # Idle =>
        /\ \A e \in DOMAIN inst.edge_incidences :
             \A p \in DOMAIN inst.edge_incidences[e].entries :
                LET val == inst.edge_incidences[e].entries[p].value
                IN /\ val[1] \in DOMAIN inst.node_incidences
                   /\ val[2] \in DOMAIN inst.node_incidences[val[1]].entries
                   /\ inst.node_incidences[val[1]].entries[val[2]].value = <<e, p>>
                   /\ val = inst0.edge_incidences[e].entries[p].value
        /\ \A v \in DOMAIN inst.node_incidences :
             \A r \in DOMAIN inst.node_incidences[v].entries :
                LET val == inst.node_incidences[v].entries[r].value
                IN /\ val[1] \in DOMAIN inst.edge_incidences
                   /\ val[2] \in DOMAIN inst.edge_incidences[val[1]].entries
                   /\ inst.edge_incidences[val[1]].entries[val[2]].value = <<v, r>>
                   /\ val = inst0.node_incidences[v].entries[r].value

\* Deletes are pending on an instance where some edge stores a vertex in a slot
\* other than the slot the vertex stores the edge in.
C5_Witness ==
    /\ inst # Idle
    /\ Len(ops) >= 2
    /\ \E c \in Incidences(inst) : c.p # c.r /\ Civ_is_deleted(inst.nodes, c.v)

(***************************************************************************)
(* Tries: subset_trie.rs, superset_trie.rs and the variants of set_tries.rs *)
(* Sets are handed over as ascending sequences.  SubsetTrieChildren and    *)
(* SmallMap are modelled in their flat-vector form, the one chosen for a   *)
(* key range of at most 32 (256) keys; the hash-map form stores the same   *)
(* mapping.                                                                *)
(***************************************************************************)
EmptyMap == [k \in {} |-> INVALID]
MapPut(map, k, v) == [x \in (DOMAIN map) \cup {k} |-> IF x = k THEN v ELSE map[x]]

SubsetTrieChildren_new(key_range) ==
    [key_range |-> key_range, flat |-> [i \in 0..(key_range - 1) |-> INVALID]]

SubsetTrieChildren_get(ch, node_idx, edge_val) ==
    ch.flat[node_idx * ch.key_range + edge_val]

SubsetTrieChildren_get_or_insert(ch, node_idx, edge_val) ==
    LET idx == node_idx * ch.key_range + edge_val
        n == VecLen(ch.flat)
        fresh == n \div ch.key_range
    IN IF ch.flat[idx] # INVALID
       THEN [children |-> ch, idx |-> ch.flat[idx], inserted |-> FALSE]
       ELSE [children |-> [ch EXCEPT !.flat =
                              [i \in 0..(n + ch.key_range - 1) |->
                                  IF i = idx THEN fresh
                                  ELSE IF i < n THEN ch.flat[i] ELSE INVALID]],
             idx |-> fresh, inserted |-> TRUE]

\* default is M::default() of the marker type M
SubsetTrie_new(key_range, default) ==
    [children |-> SubsetTrieChildren_new(key_range),
     markers |-> [i \in {0} |-> default],
     default |-> default]

SubsetTrie_insert(t, marker, set) ==
    LET step(st, edge_val) ==
            LET r == SubsetTrieChildren_get_or_insert(st.t.children, st.idx, edge_val)
            IN [t |-> [st.t EXCEPT !.children = r.children,
                                   !.markers = IF r.inserted THEN VecPush(@, st.t.default)
                                               ELSE @],
                idx |-> r.idx]
        fin == FoldSeq(step, [t |-> t, idx |-> 0], set)
    IN [fin.t EXCEPT !.markers[fin.idx] = marker]

\* Mutant: the node is not pushed back, so its other children are never tried.
RECURSIVE SubsetTrie_find_subset_loop_no_backtrack(_, _, _)
SubsetTrie_find_subset_loop_no_backtrack(t, q, stack) ==
    IF stack = <<>> THEN t.default
    ELSE LET node_idx == Top(stack)[1]
             pos == Top(stack)[2]
             hits == {j \in pos..Len(q) :
                         SubsetTrieChildren_get(t.children, node_idx, q[j]) # INVALID}
         IN IF t.markers[node_idx] # t.default THEN t.markers[node_idx]
            ELSE IF hits = {}
                 THEN SubsetTrie_find_subset_loop_no_backtrack(t, q, Pop(stack))
            ELSE LET j == Min(hits)
                     next_node == SubsetTrieChildren_get(t.children, node_idx, q[j])
                 IN SubsetTrie_find_subset_loop_no_backtrack(t, q,
                        Append(Pop(stack), <<next_node, j + 1>>))

\* The while-let loop of find_subset; a stack entry is <<trie node, position of
\* the iterator in the query>>.
RECURSIVE SubsetTrie_find_subset_loop(_, _, _)
SubsetTrie_find_subset_loop(t, q, stack) ==
    IF stack = <<>> THEN t.default
    ELSE LET node_idx == Top(stack)[1]
             pos == Top(stack)[2]
             hits == {j \in pos..Len(q) :
                         SubsetTrieChildren_get(t.children, node_idx, q[j]) # INVALID}
         IN IF t.markers[node_idx] # t.default THEN t.markers[node_idx]
            ELSE IF hits = {} THEN SubsetTrie_find_subset_loop(t, q, Pop(stack))
            ELSE LET j == Min(hits)
                     next_node == SubsetTrieChildren_get(t.children, node_idx, q[j])
                 IN SubsetTrie_find_subset_loop(t, q,
                        Pop(stack) \o << <<node_idx, j + 1>>, <<next_node, j + 1>> >>)

SubsetTrie_find_subset(t, q) == SubsetTrie_find_subset_loop(t, q, << <<0, 1>> >>)

\* BTreeMap::range with an included or excluded lower and an included upper
\* bound: the keys still to be yielded; next_back yields the largest.
BTreeMap_range(map, lo, lo_included, hi) ==
    {k \in DOMAIN map : (IF lo_included THEN lo <= k ELSE lo < k) /\ k <= hi}

SupersetTrie_new ==
    [children |-> [i \in {0} |-> EmptyMap], is_set |-> [i \in {0} |-> FALSE]]

SupersetTrie_insert(t, set) ==
    LET step(st, item) ==
            LET new_node_idx == VecLen(st.t.children)
                map == st.t.children[st.idx]
            IN IF item \in DOMAIN map THEN [t |-> st.t, idx |-> map[item]]
               ELSE [t |-> [children |->
                               VecPush([st.t.children EXCEPT ![st.idx] =
                                           MapPut(map, item, new_node_idx)], EmptyMap),
                            is_set |-> VecPush(st.t.is_set, FALSE)],
                     idx |-> new_node_idx]
        fin == FoldSeq(step, [t |-> t, idx |-> 0], set)
    IN [fin.t EXCEPT !.is_set[fin.idx] = TRUE]

\* The while-let loop of contains_superset_with_stack; a stack entry is
\* <<trie node, position of the peeked query item, keys left in the range>>.
RECURSIVE SupersetTrie_loop(_, _, _)
SupersetTrie_loop(t, q, stack) ==
    IF stack = <<>> THEN FALSE
    ELSE LET node_idx == Top(stack)[1]
             pos == Top(stack)[2]
             range == Top(stack)[3]
             val_to_match == q[pos]
         IN IF range = {} THEN SupersetTrie_loop(t, q, Pop(stack))
            ELSE LET edge_val == Max(range)
                     next_node == t.children[node_idx][edge_val]
                     rest == Append(Pop(stack), <<node_idx, pos, range \ {edge_val}>>)
                 IN IF edge_val = val_to_match
                    THEN IF pos < Len(q)
                         THEN SupersetTrie_loop(t, q, Append(rest,
                                  <<next_node, pos + 1,
                                    BTreeMap_range(t.children[next_node], val_to_match,
                                                   FALSE, q[pos + 1])>>))
                         ELSE TRUE
                    ELSE SupersetTrie_loop(t, q, Append(rest,
                             <<next_node, pos,
                               BTreeMap_range(t.children[next_node], edge_val,
                                              FALSE, val_to_match)>>))

SupersetTrie_contains_superset(t, q) ==
    IF q = <<>> THEN VecLen(t.children) > 1
    ELSE SupersetTrie_loop(t, q,
             << <<0, 1, BTreeMap_range(t.children[0], 0, TRUE, q[1])>> >>)

\* set_tries.rs.  The query is a SkipVec of (item, back-reference) pairs, walked
\* with first / next / prev.
SmallMap_new(key_range_size) == [k \in 0..(key_range_size - 1) |-> INVALID]

SmallMap_get_or_insert(map, key, value) ==
    IF map[key] = INVALID THEN [map EXCEPT ![key] = value] ELSE map

SetTries_SubsetTrie_new(num_nodes) ==
    [num_nodes |-> num_nodes,
     nexts |-> [i \in {0} |-> SmallMap_new(num_nodes)],
     is_set |-> [i \in {0} |-> FALSE]]

SetTries_SubsetTrie_insert(t, set) ==
    LET step(st, node_idx) ==
            LET new_node_idx == VecLen(st.t.nexts)
                map == SmallMap_get_or_insert(st.t.nexts[st.idx], node_idx, new_node_idx)
                idx == map[node_idx]
                nexts == [st.t.nexts EXCEPT ![st.idx] = map]
            IN IF idx = new_node_idx
               THEN [t |-> [st.t EXCEPT !.nexts = VecPush(nexts, SmallMap_new(st.t.num_nodes)),
                                        !.is_set = VecPush(st.t.is_set, FALSE)],
                     idx |-> idx]
               ELSE [t |-> st.t, idx |-> idx]
        fin == FoldSeq(step, [t |-> t, idx |-> 0], set)
    IN [fin.t EXCEPT !.is_set[fin.idx] = TRUE]

\* The two nested loops of contains_subset: `stack` is self.stack, (trie_node,
\* set_idx) the entry being worked on, None when the next one is to be popped.
RECURSIVE SetTries_contains_subset_loop(_, _, _, _, _)
SetTries_contains_subset_loop(t, set, stack, trie_node, set_idx) ==
    IF trie_node = INVALID
    THEN IF stack = <<>> THEN FALSE
         ELSE SetTries_contains_subset_loop(t, set, Pop(stack), Top(stack)[1], Top(stack)[2])
    ELSE LET item == set.entries[set_idx].value[1]
             next_node == t.nexts[trie_node][item]
             next_idx == set.entries[set_idx].next
         IN IF next_node # INVALID /\ t.is_set[next_node] THEN TRUE
            ELSE IF next_node # INVALID /\ next_idx # INVALID
                 THEN SetTries_contains_subset_loop(t, set,
                          Append(stack, <<trie_node, next_idx>>), next_node, next_idx)
            ELSE IF next_idx = INVALID
                 THEN SetTries_contains_subset_loop(t, set, stack, INVALID, INVALID)
            ELSE SetTries_contains_subset_loop(t, set, stack, trie_node, next_idx)

SetTries_contains_subset(t, set) ==
    IF t.is_set[0] THEN TRUE
    ELSE IF set.first = INVALID THEN FALSE
    ELSE SetTries_contains_subset_loop(t, set, <<>>, 0, set.first)

RECURSIVE SetTries_contains_superset_loop(_, _, _)
SetTries_contains_superset_loop(t, set, stack) ==
    IF stack = <<>> THEN FALSE
    ELSE LET trie_idx == Top(stack)[1]
             set_idx == Top(stack)[2]
             range == Top(stack)[3]
         IN IF range = {} THEN SetTries_contains_superset_loop(t, set, Pop(stack))
            ELSE LET edge_idx == Max(range)
                     next_trie_idx == t.children[trie_idx][edge_idx]
                     cur_item == set.entries[set_idx].value[1]
                     next_set_idx == set.entries[set_idx].next
                     prev_idx == set.entries[set_idx].prev
                     rest == Append(Pop(stack), <<trie_idx, set_idx, range \ {edge_idx}>>)
                 IN IF edge_idx = cur_item
                    THEN IF next_set_idx # INVALID
                         THEN SetTries_contains_superset_loop(t, set, Append(rest,
                                  <<next_trie_idx, next_set_idx,
                                    BTreeMap_range(t.children[next_trie_idx], cur_item, FALSE,
                                                   set.entries[next_set_idx].value[1])>>))
                         ELSE TRUE
                    ELSE SetTries_contains_superset_loop(t, set, Append(rest,
                             <<next_trie_idx, set_idx,
                               IF prev_idx = INVALID
                               THEN BTreeMap_range(t.children[next_trie_idx], 0, TRUE, cur_item)
                               ELSE BTreeMap_range(t.children[next_trie_idx],
                                        set.entries[prev_idx].value[1], FALSE, cur_item)>>))

\* SupersetTrie of set_tries.rs has the fields and the insert of superset_trie.rs
\* (nexts for children).
SetTries_contains_superset(t, set) ==
    IF set.first = INVALID THEN TRUE
    ELSE SetTries_contains_superset_loop(t, set,
             << <<0, set.first,
                  BTreeMap_range(t.children[0], 0, TRUE, set.entries[set.first].value[1])>> >>)

(***************************************************************************)
(* SpecTrie: one trie, sets inserted, queries answered                     *)
(***************************************************************************)
Keys == 0..(MaxKeys - 1)
Markers == {0, 1}
TrieKinds == {"subset_trie", "superset_trie", "set_tries_subset", "set_tries_superset"}

\* The query of the set_tries.rs variants: the incidence list of an item
QueryVec(Q) == from_entry_vec([i \in 1..Cardinality(Q) |-> <<SetToAscSeq(Q)[i], 0>>])

InitTrie ==
    /\ \E kind \in TrieKinds :
         trie = [kind |-> kind,
                 t |-> CASE kind = "subset_trie" -> SubsetTrie_new(MaxKeys, INVALID)
                         [] kind = "set_tries_subset" -> SetTries_SubsetTrie_new(MaxKeys)
                         [] OTHER -> SupersetTrie_new]
    /\ inserted = <<>>
    /\ answer = Idle
    /\ SkipIdle
    /\ InstIdle
    /\ SolverIdle

TrieInserted(t, S, marker) ==
    /\ Len(inserted) < MaxInserts
    /\ trie' = [trie EXCEPT !.t = t]
    /\ inserted' = Append(inserted, <<S, marker>>)
    /\ answer' = Idle
    /\ UNCHANGED outsideTrie

TrieAnswered(Q, result) ==
    /\ answer' = [query |-> Q, result |-> result]
    /\ UNCHANGED <<trie, inserted, outsideTrie>>

SubsetInsert(S, marker) ==
    /\ trie.kind = "subset_trie"
    /\ TrieInserted(SubsetTrie_insert(trie.t, marker, SetToAscSeq(S)), S, marker)

FindSubset(Q) ==
    /\ trie.kind = "subset_trie"
    /\ TrieAnswered(Q, SubsetTrie_find_subset(trie.t, SetToAscSeq(Q)))

SupersetInsert(S) ==
    /\ trie.kind = "superset_trie"
    /\ TrieInserted(SupersetTrie_insert(trie.t, SetToAscSeq(S)), S, TRUE)

ContainsSuperset(Q) ==
    /\ trie.kind = "superset_trie"
    /\ TrieAnswered(Q, SupersetTrie_contains_superset(trie.t, SetToAscSeq(Q)))

SetTriesSubsetInsert(S) ==
    /\ trie.kind = "set_tries_subset"
    /\ TrieInserted(SetTries_SubsetTrie_insert(trie.t, SetToAscSeq(S)), S, TRUE)

SetTriesContainsSubset(Q) ==
    /\ trie.kind = "set_tries_subset"
    /\ TrieAnswered(Q, SetTries_contains_subset(trie.t, QueryVec(Q)))

SetTriesSupersetInsert(S) ==
    /\ trie.kind = "set_tries_superset"
    /\ TrieInserted(SupersetTrie_insert(trie.t, SetToAscSeq(S)), S, TRUE)

SetTriesContainsSuperset(Q) ==
    /\ trie.kind = "set_tries_superset"
    /\ TrieAnswered(Q, SetTries_contains_superset(trie.t, QueryVec(Q)))

NextTrie ==
    \/ \E S \in SUBSET Keys : \E marker \in Markers : SubsetInsert(S, marker)
    \/ \E Q \in SUBSET Keys : FindSubset(Q)
    \/ \E S \in SUBSET Keys : SupersetInsert(S)
    \/ \E Q \in SUBSET Keys : ContainsSuperset(Q)
    \/ \E S \in SUBSET Keys : SetTriesSubsetInsert(S)
    \/ \E Q \in SUBSET Keys : SetTriesContainsSubset(Q)
    \/ \E S \in SUBSET Keys : SetTriesSupersetInsert(S)
    \/ \E Q \in SUBSET Keys : SetTriesContainsSuperset(Q)

SpecTrie == InitTrie /\ [][NextTrie]_vars

\* The inserted sets that are subsets / supersets of the last query
SubsetsOfQuery == {i \in 1..Len(inserted) : inserted[i][1] \subseteq answer.query}
SupersetsOfQuery == {i \in 1..Len(inserted) : answer.query \subseteq inserted[i][1]}

\* C6: find_subset(Q) returns a non-default mark exactly when some inserted set
\* is a subset of Q (an inserted empty set included), and the mark returned is
\* the mark some such set was inserted with; contains_subset of set_tries.rs
\* returns true exactly when some inserted set is a subset of Q.
C6_FindSubsetIffSubsetInserted ==
    (answer # Idle /\ trie # Idle) =>
        /\ trie.kind = "subset_trie" =>
             /\ answer.result # trie.t.default <=> SubsetsOfQuery # {}
             /\ answer.result # trie.t.default =>
                    \E i \in SubsetsOfQuery : inserted[i][2] = answer.result
        /\ trie.kind = "set_tries_subset" => (answer.result <=> SubsetsOfQuery # {})

\* A query that is answered with the mark of a proper subset although the set
\* inserted first is no subset of it.
C6_Witness ==
    /\ answer # Idle /\ trie # Idle
    /\ trie.kind = "subset_trie"
    /\ Len(inserted) = MaxInserts
    /\ 1 \notin SubsetsOfQuery
    /\ answer.result # trie.t.default
    /\ \A i \in SubsetsOfQuery : inserted[i][1] # answer.query /\ inserted[i][1] # {}

\* C7 as stated: contains_superset(Q) returns true exactly when some inserted
\* set is a superset of Q, the empty query and the empty trie included.
C7_ContainsSupersetIffSupersetInserted ==
    (answer # Idle /\ trie # Idle) =>
        (trie.kind \in {"superset_trie", "set_tries_superset"} =>
            (answer.result <=> SupersetsOfQuery # {}))

(***************************************************************************)
(* Lower bounds (lower_bound.rs)                                           *)
(***************************************************************************)
\* Option<usize>, and the outcome of a call that panics
Some(x) == [tag |-> "Some", value |-> x]
None == [tag |-> "None"]
Panic == [tag |-> "panic"]

SumSeq(s) == FoldSeq(LAMBDA acc, x : acc + x, 0, s)
MaxSeq(s) == FoldSeq(LAMBDA acc, x : IF x > acc THEN x ELSE acc, 0, s)

\* The degrees of the alive nodes, in the order of nodes()
Degrees(I) == [i \in 1..Len(nodes(I)) |-> node_degree(I, nodes(I)[i])]

\* Mutant: the quotient is rounded up once more.
calc_max_degree_bound_plus_one(I) ==
    IF nodes(I) = <<>> THEN None
    ELSE LET max_degree == Max(SeqToSet(Degrees(I)))
         IN IF max_degree = 0 THEN Panic
            ELSE Some((num_edges(I) + max_degree) \div max_degree)

\* With no alive node the maximum is None.  With alive nodes that all have
\* degree 0 the subtraction overflows or the division divides by zero.
calc_max_degree_bound(I) ==
    IF nodes(I) = <<>> THEN None
    ELSE LET max_degree == Max(SeqToSet(Degrees(I)))
         IN IF max_degree = 0 THEN Panic
            ELSE Some((num_edges(I) + max_degree - 1) \div max_degree)

\* .take_while(covered_edges < num_edges, covered_edges += degree).count()
RECURSIVE take_while_uncovered(_, _, _)
take_while_uncovered(degrees, covered_edges, num) ==
    IF degrees = <<>> \/ ~(covered_edges < num) THEN 0
    ELSE 1 + take_while_uncovered(Tail(degrees), covered_edges + Head(degrees), num)

calc_sum_degree_bound(I) ==
    take_while_uncovered(Reverse(SortAsc(Degrees(I))), 0, num_edges(I))

PairLess(a, b) == a[1] < b[1] \/ (a[1] = b[1] /\ a[2] < b[2])

\* slice::sort_by_cached_key (a stable sort) with keys that are pairs
sort_by_cached_key(s, Key(_)) ==
    LET rank(i) == 1 + Cardinality({j \in 1..Len(s) :
                          \/ PairLess(Key(s[j]), Key(s[i]))
                          \/ (Key(s[j]) = Key(s[i]) /\ j < i)})
    IN [r \in 1..Len(s) |-> s[CHOOSE i \in 1..Len(s) : rank(i) = r]]

\* The sort key of PackingBound::new and calc_discard_bounds
PackingKey(I, e) ==
    LET degrees == [i \in 1..Len(edge(I, e)) |-> node_degree(I, edge(I, e)[i])]
    IN <<SumSeq(degrees), MaxSeq(degrees)>>

EdgeNodes(I, e) == SeqToSet(edge(I, e))

\* SetMinusIterator::next, collected
RECURSIVE SetMinusIterator(_, _)
SetMinusIterator(set, removed_set) ==
    IF set = <<>> THEN <<>>
    ELSE IF removed_set = <<>> THEN set
    ELSE IF Head(set) < Head(removed_set)
         THEN <<Head(set)>> \o SetMinusIterator(Tail(set), removed_set)
    ELSE IF Head(set) = Head(removed_set)
         THEN SetMinusIterator(Tail(set), Tail(removed_set))
    ELSE SetMinusIterator(set, Tail(removed_set))

\* find_two_opt_swap, the loop over the packing edges from position `blocking` on
RECURSIVE find_two_opt_swap(_, _, _, _, _)
find_two_opt_swap(I, packing, blocked_by, hit_by, blocking) ==
    IF blocking >= Len(packing) THEN None
    ELSE LET blocked == blocked_by[blocking]
             blocking_edge == packing[blocking + 1]
             available_nodes ==
                 SortAsc(SelectSeq(nodes(I), LAMBDA v : hit_by[v] = INVALID)
                         \o edge(I, blocking_edge))
             step(st, blocked_edge) ==
                 IF st.found # None THEN st
                 ELSE LET other_edge == SubsetTrie_find_subset(st.trie,
                              SetMinusIterator(available_nodes, edge(I, blocked_edge)))
                      IN IF other_edge # INVALID
                         THEN [st EXCEPT !.found =
                                  [tag |-> "Some", blocking |-> blocking,
                                   added |-> <<blocked_edge, other_edge>>]]
                         ELSE [st EXCEPT !.trie =
                                  SubsetTrie_insert(@, blocked_edge, edge(I, blocked_edge))]
             searched == FoldSeq(step,
                             [trie |-> SubsetTrie_new(num_nodes_total(I), INVALID),
                              found |-> None], blocked)
         IN IF searched.found # None THEN searched.found
            ELSE find_two_opt_swap(I, packing, blocked_by, hit_by, blocking + 1)

\* improve_packing_by_local_search: hit_by[v] is the position of the last
\* packed edge that contains v
local_search_hit_by(I, packing) ==
    [v \in 0..(num_nodes_total(I) - 1) |->
        LET idxs == {i \in 1..Len(packing) : v \in EdgeNodes(I, packing[i])}
        IN IF idxs = {} THEN INVALID ELSE Max(idxs) - 1]

\* improve_packing_by_local_search: the one packed edge that blocks e, or INVALID
local_search_blocking_of(I, hit_by, e) ==
    FoldSeq(LAMBDA st, v :
                IF st.done \/ hit_by[v] = INVALID THEN st
                ELSE IF st.blocking # INVALID /\ st.blocking # hit_by[v]
                     THEN [blocking |-> INVALID, done |-> TRUE]
                ELSE [blocking |-> hit_by[v], done |-> FALSE],
            [blocking |-> INVALID, done |-> FALSE], edge(I, e)).blocking

local_search_blocked_by(I, packing, remaining, hit_by) ==
    [b \in 0..(Len(packing) - 1) |->
        SelectSeq(remaining, LAMBDA e : local_search_blocking_of(I, hit_by, e) = b)]

\* Mutant: the edge that is swapped out stays in the packing.
local_search_swapped_keeps_removed(I, packing, remaining, hit_by, blocked_by, swap) ==
    LET removed_edge == packing[swap.blocking + 1]
        hit == ({v \in DOMAIN hit_by : hit_by[v] # INVALID}
                    \ EdgeNodes(I, removed_edge))
               \cup EdgeNodes(I, swap.added[1]) \cup EdgeNodes(I, swap.added[2])
        add(st, candidate) ==
            IF EdgeNodes(I, candidate) \cap st.hit = {}
            THEN [packing |-> Append(st.packing, candidate),
                  remaining |-> SelectSeq(st.remaining, LAMBDA e : e # candidate),
                  hit |-> st.hit \cup EdgeNodes(I, candidate)]
            ELSE st
    IN FoldSeq(add,
           [packing |-> packing \o swap.added,
            remaining |-> Append(SelectSeq(remaining,
                             LAMBDA e : e # swap.added[1] /\ e # swap.added[2]),
                             removed_edge),
            hit |-> hit],
           blocked_by[swap.blocking])

\* improve_packing_by_local_search: the swap is made and the packing filled up
\* with the edges the removed edge blocked
local_search_swapped(I, packing, remaining, hit_by, blocked_by, swap) ==
    LET removed_edge == packing[swap.blocking + 1]
        \* the nodes whose hit_by entry is valid after the swap
        hit == ({v \in DOMAIN hit_by : hit_by[v] # INVALID}
                    \ EdgeNodes(I, removed_edge))
               \cup EdgeNodes(I, swap.added[1]) \cup EdgeNodes(I, swap.added[2])
        add(st, candidate) ==
            IF EdgeNodes(I, candidate) \cap st.hit = {}
            THEN [packing |-> Append(st.packing, candidate),
                  remaining |-> SelectSeq(st.remaining, LAMBDA e : e # candidate),
                  hit |-> st.hit \cup EdgeNodes(I, candidate)]
            ELSE st
    IN FoldSeq(add,
           [packing |-> SelectSeq(packing, LAMBDA e : e # removed_edge) \o swap.added,
            remaining |-> Append(SelectSeq(remaining,
                             LAMBDA e : e # swap.added[1] /\ e # swap.added[2]),
                             removed_edge),
            hit |-> hit],
           blocked_by[swap.blocking])

\* improve_packing_by_local_search, one round of the loop: the packing and the
\* remaining edges after it, and whether a swap was found
local_search_after(I, packing, remaining, hit_by, blocked_by, swap) ==
    IF swap = None THEN [found |-> FALSE, packing |-> packing, remaining |-> remaining]
    ELSE [found |-> TRUE,
          swapped |-> local_search_swapped(I, packing, remaining, hit_by, blocked_by, swap)]

local_search_with(I, packing, remaining, hit_by, blocked_by) ==
    local_search_after(I, packing, remaining, hit_by, blocked_by,
                       find_two_opt_swap(I, packing, blocked_by, hit_by, 0))

local_search_round(I, packing, remaining, hit_by) ==
    local_search_with(I, packing, remaining, hit_by,
                      local_search_blocked_by(I, packing, remaining, hit_by))

\* improve_packing_by_local_search, the loop
RECURSIVE local_search_loop(_, _, _)
local_search_next(I, round) ==
    IF round.found
    THEN local_search_loop(I, round.swapped.packing, round.swapped.remaining)
    ELSE round.packing

local_search_loop(I, packing, remaining) ==
    local_search_next(I, local_search_round(I, packing, remaining,
                                            local_search_hit_by(I, packing)))

improve_packing_by_local_search(I, packing) ==
    local_search_loop(I, packing,
        SelectSeq(edges(I), LAMBDA e : e \notin SeqToSet(packing)))

\* Mutant: only the edges at the first node of a retained edge are marked.
PackingBound_new_first_node(I, settings) ==
    LET sorted == sort_by_cached_key(edges(I), LAMBDA e : PackingKey(I, e))
        retain(st, e) ==
            IF e \notin st.disjoint THEN st
            ELSE [packing |-> Append(st.packing, e),
                  disjoint |-> st.disjoint \ UNION {SeqToSet(node(I, v)) :
                                   v \in SeqToSet(SubSeq(edge(I, e), 1, 1))}]
        packing == FoldSeq(retain,
                       [packing |-> <<>>, disjoint |-> DOMAIN I.edge_incidences],
                       sorted).packing
    IN IF settings.enable_local_search
       THEN improve_packing_by_local_search(I, packing)
       ELSE packing

\* PackingBound::new: the packing
PackingBound_new(I, settings) ==
    LET sorted == sort_by_cached_key(edges(I), LAMBDA e : PackingKey(I, e))
        retain(st, e) ==
            IF e \notin st.disjoint THEN st
            ELSE [packing |-> Append(st.packing, e),
                  disjoint |-> st.disjoint \ UNION {SeqToSet(node(I, v)) : v \in EdgeNodes(I, e)}]
        packing == FoldSeq(retain,
                       [packing |-> <<>>, disjoint |-> DOMAIN I.edge_incidences],
                       sorted).packing
    IN IF settings.enable_local_search
       THEN improve_packing_by_local_search(I, packing)
       ELSE packing

PackingBound_bound(packing) == Len(packing)

(***************************************************************************)
(* Greedy approximation (reductions.rs)                                    *)
(***************************************************************************)
\* BinaryHeap::pop on a heap kept as a sequence: the position of a greatest pair
HeapTop(queue) ==
    CHOOSE i \in 1..Len(queue) : \A j \in 1..Len(queue) : ~PairLess(queue[i], queue[j])

RemoveAt(s, i) == SubSeq(s, 1, i - 1) \o SubSeq(s, i + 1, Len(s))

\* Mutant: an entry that carries the node's current degree is skipped as stale.
RECURSIVE greedy_loop_skips_current(_, _, _, _, _)
greedy_loop_skips_current(I, hit, node_degrees, node_queue, hs) ==
    IF node_queue = <<>> THEN hs
    ELSE LET top == HeapTop(node_queue)
             degree == node_queue[top][1]
             n == node_queue[top][2]
             popped == RemoveAt(node_queue, top)
         IN IF degree = 0 THEN hs
            ELSE IF degree >= node_degrees[n]
                 THEN greedy_loop_skips_current(I, hit, node_degrees, popped, hs)
            ELSE hs

\* calc_greedy_approximation, the loop `while let Some(..) = node_queue.pop()`
RECURSIVE greedy_loop(_, _, _, _, _)
greedy_loop(I, hit, node_degrees, node_queue, hs) ==
    IF node_queue = <<>> THEN hs
    ELSE LET top == HeapTop(node_queue)
             degree == node_queue[top][1]
             n == node_queue[top][2]
             popped == RemoveAt(node_queue, top)
         IN IF degree = 0 THEN hs
            ELSE IF degree > node_degrees[n]
                 THEN greedy_loop(I, hit, node_degrees, popped, hs)
            ELSE LET lower(st, edge_node) ==
                         IF st.node_degrees[edge_node] > 0
                         THEN [st EXCEPT
                                 !.node_degrees[edge_node] = @ - 1,
                                 !.node_queue = Append(@,
                                     <<st.node_degrees[edge_node] - 1, edge_node>>)]
                         ELSE st
                     hit_edge(st, e) ==
                         IF st.hit[e] THEN st
                         ELSE FoldSeq(lower, [st EXCEPT !.hit[e] = TRUE], edge(I, e))
                     after == FoldSeq(hit_edge,
                                  [hit |-> hit,
                                   node_degrees |-> [node_degrees EXCEPT ![n] = 0],
                                   node_queue |-> popped],
                                  node(I, n))
                 IN greedy_loop(I, after.hit, after.node_degrees, after.node_queue,
                                Append(hs, n))

calc_greedy_approximation(I) ==
    LET hit == [e \in DOMAIN I.edge_incidences |-> e \notin SeqToSet(edges(I))]
        node_degrees == [v \in DOMAIN I.node_incidences |->
                            IF v \in SeqToSet(nodes(I)) THEN node_degree(I, v) ELSE 0]
        node_queue == [i \in 1..Len(nodes(I)) |-> <<node_degrees[nodes(I)[i]], nodes(I)[i]>>]
    IN greedy_loop(I, hit, node_degrees, node_queue, <<>>)

(***************************************************************************)
(* SpecBound: the lower bounds and the greedy approximation on instances   *)
(* with some nodes and edges deleted                                       *)
(***************************************************************************)
MaxBoundOps == 2

\* Edges on six vertices among which the 2-opt local search finds a swap
LocalSearchEdges == {<<1, 2>>, <<0, 1, 4>>, <<2, 3, 5>>}

BoundInputs ==
    WellFormedInputs \cup {<<6, es>> : es \in SeqsUpTo(LocalSearchEdges, MaxEdges)}

InitBound ==
    /\ \E in \in BoundInputs : inst = load(in[1], in[2]).instance
    /\ inst0 = inst
    /\ ops = <<>>
    /\ SkipIdle
    /\ TrieIdle
    /\ SolverIdle

outsideAnswer == <<sv, svStack, inst, inst0, ops, trie, inserted, solver>>

CalcMaxDegreeBound ==
    /\ answer = Idle
    /\ answer' = [op |-> "max_degree", instance |-> inst,
                  bound |-> calc_max_degree_bound(inst)]
    /\ UNCHANGED outsideAnswer

CalcSumDegreeBound ==
    /\ answer = Idle
    /\ answer' = [op |-> "sum_degree", instance |-> inst,
                  bound |-> Some(calc_sum_degree_bound(inst))]
    /\ UNCHANGED outsideAnswer

CalcPackingBound(enable_local_search) ==
    /\ answer = Idle
    /\ answer' = [op |-> "packing", instance |-> inst,
                  local_search |-> enable_local_search,
                  packing |-> PackingBound_new(inst,
                                  [enable_local_search |-> enable_local_search]),
                  bound |-> Some(PackingBound_bound(PackingBound_new(inst,
                                  [enable_local_search |-> enable_local_search])))]
    /\ UNCHANGED outsideAnswer

CalcGreedyApproximation ==
    /\ answer = Idle
    /\ answer' = [op |-> "greedy", instance |-> inst,
                  hs |-> calc_greedy_approximation(inst)]
    /\ UNCHANGED outsideAnswer

\* A bound or the greedy set is computed once, on the instance reached.
NextBound ==
    \/ answer = Idle /\ Len(ops) < MaxBoundOps /\ \E v \in DOMAIN inst.node_incidences : DeleteNode(v)
    \/ answer = Idle /\ Len(ops) < MaxBoundOps /\ \E e \in DOMAIN inst.edge_incidences : DeleteEdge(e)
    \/ answer = Idle /\ Len(ops) < MaxBoundOps /\ \E v \in DOMAIN inst.node_incidences : DeleteIncidentEdges(v)
    \/ CalcMaxDegreeBound
    \/ CalcSumDegreeBound
    \/ \E enable_local_search \in BOOLEAN : CalcPackingBound(enable_local_search)
    \/ CalcGreedyApproximation

SpecBound == InitBound /\ [][NextBound]_vars

EveryEdgeHasNode(I) == \A e \in AliveEdges(I) : edge(I, e) # <<>>

HittingSets(I) ==
    {H \in SUBSET AliveNodes(I) : \A e \in AliveEdges(I) : EdgeNodes(I, e) \cap H # {}}

MinimumHittingSetSize(I) == Min({Cardinality(H) : H \in HittingSets(I)})

BoundAnswered ==
    /\ answer # Idle
    /\ answer.op \in {"max_degree", "sum_degree", "packing"}
    /\ EveryEdgeHasNode(answer.instance)

\* C9: on an instance whose alive edges all have an alive vertex, the
\* max-degree bound, the sum-degree bound and the packing bound (with or
\* without local search) are numbers not above the minimum number of alive
\* vertices that hit all alive edges.
C9_BoundsAtMostOptimum ==
    BoundAnswered =>
        /\ answer.bound.tag = "Some"
        /\ answer.bound.value <= MinimumHittingSetSize(answer.instance)

GreedyAnswered ==
    /\ answer # Idle
    /\ answer.op = "greedy"
    /\ EveryEdgeHasNode(answer.instance)

\* C10: on an instance whose alive edges all have an alive vertex,
\* calc_greedy_approximation returns alive vertices that together hit every
\* alive edge, and the step that runs it leaves the instance as it was.
C10_GreedyHitsAliveEdges ==
    /\ [](GreedyAnswered => SeqToSet(answer.hs) \in HittingSets(answer.instance))
    /\ [][(answer' # answer /\ answer' # Idle /\ answer'.op = "greedy")
              => (inst' = inst /\ answer'.instance = inst)]_vars

\* The greedy set was computed after deletions, and took two picks.
C10_Witness ==
    /\ GreedyAnswered
    /\ answer.instance = inst
    /\ ops # <<>>
    /\ Len(answer.hs) >= 2
    /\ SeqToSet(answer.hs) \in HittingSets(inst)

(***************************************************************************)
(* Efficiency bound, sum-over-packing bound, discard bounds                *)
(* (lower_bound.rs)                                                        *)
(***************************************************************************)
RECURSIVE Factorial(_)
Factorial(n) == IF n = 0 THEN 1 ELSE n * Factorial(n - 1)

\* An EfficiencyBound holds an f64 that is a sum of reciprocals of degrees.  It
\* is kept exactly, as num / Denominator(I); inf is f64 infinity (1.0 / 0.0).
\* The rounding error of the f64 sums is far below the EPSILON of round, and
\* an exact value that is no integer is at least 1 / Denominator(I) above one.
Denominator(I) == Factorial(num_edges_total(I))

F64_zero == [num |-> 0, inf |-> FALSE]
F64_recip(I, degree) ==
    IF degree = 0 THEN [num |-> 0, inf |-> TRUE]
    ELSE [num |-> Denominator(I) \div degree, inf |-> FALSE]
F64_add(a, b) == [num |-> a.num + b.num, inf |-> a.inf \/ b.inf]
\* a - b for a finite b
F64_sub(a, b) == [num |-> IF a.inf THEN 0 ELSE a.num - b.num, inf |-> a.inf]

\* Mutant: a whole number is rounded up as well.
EfficiencyBound_round_above(I, b) ==
    IF b.inf THEN None
    ELSE Some(b.num \div Denominator(I) + 1)

EfficiencyBound_round(I, b) ==
    IF b.inf THEN None
    ELSE IF b.num % Denominator(I) = 0 THEN Some(b.num \div Denominator(I))
    ELSE Some(b.num \div Denominator(I) + 1)

\* opt.unwrap_or(usize::MAX) >= lower_bound_breakpoint
UnwrapOrMaxAtLeast(opt, lower_bound_breakpoint) ==
    opt = None \/ opt.value >= lower_bound_breakpoint

\* Mutant: a new maximum does not hand the old one down as the second maximum.
calc_efficiency_bound_second_kept(I) ==
    LET degree_fold(acc, n) ==
            IF node_degree(I, n) > acc.max
            THEN [max |-> node_degree(I, n), max_node |-> n, max2 |-> acc.max2]
            ELSE [acc EXCEPT !.max2 = IF node_degree(I, n) > @ THEN node_degree(I, n) ELSE @]
        per_edge(st, e) ==
            LET f == FoldSeq(degree_fold, [max |-> 0, max_node |-> INVALID, max2 |-> 0],
                             edge(I, e))
                bound_summand == F64_recip(I, f.max)
            IN [bound |-> F64_add(st.bound, bound_summand),
                discard_bounds |->
                    IF f.max_node # INVALID
                    THEN [st.discard_bounds EXCEPT ![f.max_node] =
                             F64_add(@, F64_sub(F64_recip(I, f.max2), bound_summand))]
                    ELSE st.discard_bounds]
        summed == FoldSeq(per_edge,
                      [bound |-> F64_zero,
                       discard_bounds |-> [v \in DOMAIN I.node_incidences |-> F64_zero]],
                      edges(I))
    IN [bound |-> summed.bound,
        discard_bounds |-> [v \in DOMAIN I.node_incidences |->
                               F64_add(summed.discard_bounds[v], summed.bound)]]

calc_efficiency_bound(I) ==
    LET degree_fold(acc, n) ==
            IF node_degree(I, n) > acc.max
            THEN [max |-> node_degree(I, n), max_node |-> n, max2 |-> acc.max]
            ELSE [acc EXCEPT !.max2 = IF node_degree(I, n) > @ THEN node_degree(I, n) ELSE @]
        per_edge(st, e) ==
            LET f == FoldSeq(degree_fold, [max |-> 0, max_node |-> INVALID, max2 |-> 0],
                             edge(I, e))
                bound_summand == F64_recip(I, f.max)
            IN [bound |-> F64_add(st.bound, bound_summand),
                discard_bounds |->
                    IF f.max_node # INVALID
                    THEN [st.discard_bounds EXCEPT ![f.max_node] =
                             F64_add(@, F64_sub(F64_recip(I, f.max2), bound_summand))]
                    ELSE st.discard_bounds]
        summed == FoldSeq(per_edge,
                      [bound |-> F64_zero,
                       discard_bounds |-> [v \in DOMAIN I.node_incidences |-> F64_zero]],
                      edges(I))
    IN [bound |-> summed.bound,
        discard_bounds |-> [v \in DOMAIN I.node_incidences |->
                               F64_add(summed.discard_bounds[v], summed.bound)]]

\* Iterator::max_by_key: the last of the greatest elements
MaxByKeyLast(s, Key(_)) ==
    s[Max({i \in 1..Len(s) : \A j \in 1..Len(s) : Key(s[j]) <= Key(s[i])})]

\* Mutant: the edges covered by the packed edges' nodes are not counted.
calc_sum_over_packing_bound_uncovered(packing, I) ==
    LET per_edge(st, packed_edge) ==
            IF st.panic \/ edge(I, packed_edge) = <<>>
               \/ \E n \in EdgeNodes(I, packed_edge) : st.adjusted_degrees[n] = 0
            THEN [st EXCEPT !.panic = TRUE]
            ELSE LET max_degree_node ==
                         MaxByKeyLast(edge(I, packed_edge), LAMBDA n : node_degree(I, n))
                 IN [panic |-> FALSE,
                     covered_edges |-> st.covered_edges,
                     adjusted_degrees |->
                         [v \in DOMAIN st.adjusted_degrees |->
                             IF v = max_degree_node THEN 0
                             ELSE IF v \in EdgeNodes(I, packed_edge)
                                  THEN st.adjusted_degrees[v] - 1
                             ELSE st.adjusted_degrees[v]]]
        packed == FoldSeq(per_edge,
                      [panic |-> FALSE, covered_edges |-> 0,
                       adjusted_degrees |-> [v \in DOMAIN I.node_incidences |->
                           IF v \in SeqToSet(nodes(I)) THEN node_degree(I, v) ELSE 0]],
                      packing)
        degrees == [i \in 1..num_nodes_total(I) |-> packed.adjusted_degrees[i - 1]]
    IN IF packed.panic THEN Panic
       ELSE Some(Len(packing)
                 + take_while_uncovered(Reverse(SortAsc(degrees)), packed.covered_edges,
                                        num_edges(I)))

\* Panics on an empty packed edge (expect) and on a degree that would drop
\* below zero.
calc_sum_over_packing_bound(packing, I) ==
    LET per_edge(st, packed_edge) ==
            IF st.panic \/ edge(I, packed_edge) = <<>>
               \/ \E n \in EdgeNodes(I, packed_edge) : st.adjusted_degrees[n] = 0
            THEN [st EXCEPT !.panic = TRUE]
            ELSE LET max_degree_node ==
                         MaxByKeyLast(edge(I, packed_edge), LAMBDA n : node_degree(I, n))
                 IN [panic |-> FALSE,
                     covered_edges |-> st.covered_edges + node_degree(I, max_degree_node),
                     adjusted_degrees |->
                         [v \in DOMAIN st.adjusted_degrees |->
                             IF v = max_degree_node THEN 0
                             ELSE IF v \in EdgeNodes(I, packed_edge)
                                  THEN st.adjusted_degrees[v] - 1
                             ELSE st.adjusted_degrees[v]]]
        packed == FoldSeq(per_edge,
                      [panic |-> FALSE, covered_edges |-> 0,
                       adjusted_degrees |-> [v \in DOMAIN I.node_incidences |->
                           IF v \in SeqToSet(nodes(I)) THEN node_degree(I, v) ELSE 0]],
                      packing)
        degrees == [i \in 1..num_nodes_total(I) |-> packed.adjusted_degrees[i - 1]]
    IN IF packed.panic THEN Panic
       ELSE Some(Len(packing)
                 + take_while_uncovered(Reverse(SortAsc(degrees)), packed.covered_edges,
                                        num_edges(I)))

\* Mutant: the marks of the edges kept for one node stay for the next node.
calc_discard_bounds_scan_unreset(packing, I) ==
    LET hit0 == UNION {EdgeNodes(I, e) : e \in SeqToSet(packing)}
        remaining == SelectSeq(edges(I), LAMBDA e : e \notin SeqToSet(packing))
        blocking_nodes(e) == SelectSeq(edge(I, e), LAMBDA n : n \in hit0)
        blocked_by == [v \in DOMAIN I.node_incidences |->
                          SelectSeq(remaining, LAMBDA e :
                              Len(blocking_nodes(e)) = 1 /\ blocking_nodes(e)[1] = v)]
        per_node(st, blocking_node) ==
            LET sorted == sort_by_cached_key(blocked_by[blocking_node],
                                             LAMBDA e : PackingKey(I, e))
                retain(r, e) ==
                    IF \A n \in EdgeNodes(I, e) : n = blocking_node \/ n \notin r.hit
                    THEN [hit |-> r.hit \cup EdgeNodes(I, e), blocked |-> Append(r.blocked, e)]
                    ELSE r
                kept == FoldSeq(retain, [hit |-> st.hit, blocked |-> <<>>], sorted)
            IN [hit |-> kept.hit,
                bounds |-> IF kept.blocked = <<>> THEN st.bounds
                           ELSE Append(st.bounds,
                                    <<blocking_node, Len(packing) + Len(kept.blocked)>>),
                marks |-> Append(st.marks, kept.hit)]
    IN IF \E e \in SeqToSet(remaining) : blocking_nodes(e) = <<>> THEN Panic
       ELSE Some(FoldSeq(per_node, [hit |-> hit0, bounds |-> <<>>, marks |-> <<hit0>>],
                         SetToAscSeq(DOMAIN I.node_incidences)))

\* calc_discard_bounds: the (node, bound) pairs in the order they are yielded,
\* and the value of hit before the first node and after each node (marks).
\* Panics (expect) on an edge outside the packing that no packed edge blocks.
calc_discard_bounds_scan(packing, I) ==
    LET hit0 == UNION {EdgeNodes(I, e) : e \in SeqToSet(packing)}
        remaining == SelectSeq(edges(I), LAMBDA e : e \notin SeqToSet(packing))
        blocking_nodes(e) == SelectSeq(edge(I, e), LAMBDA n : n \in hit0)
        blocked_by == [v \in DOMAIN I.node_incidences |->
                          SelectSeq(remaining, LAMBDA e :
                              Len(blocking_nodes(e)) = 1 /\ blocking_nodes(e)[1] = v)]
        per_node(st, blocking_node) ==
            LET sorted == sort_by_cached_key(blocked_by[blocking_node],
                                             LAMBDA e : PackingKey(I, e))
                retain(r, e) ==
                    IF \A n \in EdgeNodes(I, e) : n = blocking_node \/ n \notin r.hit
                    THEN [hit |-> r.hit \cup EdgeNodes(I, e), blocked |-> Append(r.blocked, e)]
                    ELSE r
                kept == FoldSeq(retain, [hit |-> st.hit, blocked |-> <<>>], sorted)
            IN [hit |-> kept.hit \ (UNION {EdgeNodes(I, e) : e \in SeqToSet(kept.blocked)}
                                        \ {blocking_node}),
                bounds |-> IF kept.blocked = <<>> THEN st.bounds
                           ELSE Append(st.bounds,
                                    <<blocking_node, Len(packing) + Len(kept.blocked)>>),
                marks |-> Append(st.marks, kept.hit \ (UNION {EdgeNodes(I, e) : e \in SeqToSet(kept.blocked)}
                                                      \ {blocking_node}))]
    IN IF \E e \in SeqToSet(remaining) : blocking_nodes(e) = <<>> THEN Panic
       ELSE Some(FoldSeq(per_node, [hit |-> hit0, bounds |-> <<>>, marks |-> <<hit0>>],
                         SetToAscSeq(DOMAIN I.node_incidences)))

\* What the iterator of calc_discard_bounds yields
calc_discard_bounds_yielded(scan) ==
    IF scan = Panic THEN Panic ELSE Some(scan.value.bounds)

\* The (node, bound) pairs that calc_discard_bounds yields, in order, or Panic
calc_discard_bounds(packing, I) ==
    calc_discard_bounds_yielded(calc_discard_bounds_scan(packing, I))

(***************************************************************************)
(* Reductions (reductions.rs)                                              *)
(***************************************************************************)
RemovedNode(n) == [kind |-> "RemovedNode", idx |-> n]
RemovedEdge(e) == [kind |-> "RemovedEdge", idx |-> e]
ForcedNode(n) == [kind |-> "ForcedNode", idx |-> n]

\* Mutant: a forced node is deleted without the edges it hits.
ReducedItem_apply_keeps_edges(st, item) ==
    CASE item.kind = "RemovedNode" ->
             [st EXCEPT !.instance = delete_node(@, item.idx)]
      [] item.kind = "RemovedEdge" ->
             [st EXCEPT !.instance = delete_edge(@, item.idx)]
      [] OTHER ->
             [instance |-> delete_node(st.instance, item.idx),
              partial_hs |-> Append(st.partial_hs, item.idx)]

\* st holds the instance and partial_hs
ReducedItem_apply(st, item) ==
    CASE item.kind = "RemovedNode" ->
             [st EXCEPT !.instance = delete_node(@, item.idx)]
      [] item.kind = "RemovedEdge" ->
             [st EXCEPT !.instance = delete_edge(@, item.idx)]
      [] OTHER ->
             [instance |-> delete_incident_edges(delete_node(st.instance, item.idx), item.idx),
              partial_hs |-> Append(st.partial_hs, item.idx)]

\* Mutant: restoring a forced node leaves it in partial_hs.
ReducedItem_restore_keeps_partial_hs(st, item) ==
    CASE item.kind = "RemovedNode" ->
             [st EXCEPT !.instance = restore_node(@, item.idx)]
      [] item.kind = "RemovedEdge" ->
             [st EXCEPT !.instance = restore_edge(@, item.idx)]
      [] OTHER ->
             [instance |-> restore_node(restore_incident_edges(st.instance, item.idx), item.idx),
              partial_hs |-> st.partial_hs]

ReducedItem_restore(st, item) ==
    CASE item.kind = "RemovedNode" ->
             [st EXCEPT !.instance = restore_node(@, item.idx)]
      [] item.kind = "RemovedEdge" ->
             [st EXCEPT !.instance = restore_edge(@, item.idx)]
      [] OTHER ->
             [instance |-> restore_node(restore_incident_edges(st.instance, item.idx), item.idx),
              partial_hs |-> Pop(st.partial_hs)]

Reduction_restore(reduction, I, partial_hs) ==
    FoldSeq(ReducedItem_restore, [instance |-> I, partial_hs |-> partial_hs],
            Reverse(reduction))

\* The orders sort_unstable_by_key can leave a slice in
KeySorted(s, Key(_)) ==
    {p \in Perms(SeqToSet(s)) : \A i \in 1..(Len(p) - 1) : Key(p[i]) <= Key(p[i + 1])}

\* Mutant: a node counts as dominated as soon as a node was inserted.
find_dominated_nodes_any_inserted(I, sorted_nodes) ==
    FoldSeq(LAMBDA st, n :
                IF st.trie # SupersetTrie_new
                THEN [st EXCEPT !.items = Append(@, RemovedNode(n))]
                ELSE [st EXCEPT !.trie = SupersetTrie_insert(@, node(I, n))],
            [trie |-> SupersetTrie_new, items |-> <<>>], sorted_nodes).items

\* nodes is instance.nodes() after the sort by Reverse(degree)
find_dominated_nodes(I, sorted_nodes) ==
    FoldSeq(LAMBDA st, n :
                IF SupersetTrie_contains_superset(st.trie, node(I, n))
                THEN [st EXCEPT !.items = Append(@, RemovedNode(n))]
                ELSE [st EXCEPT !.trie = SupersetTrie_insert(@, node(I, n))],
            [trie |-> SupersetTrie_new, items |-> <<>>], sorted_nodes).items

\* Mutant: the edges that are kept are not inserted into the trie.
find_dominated_edges_no_insert(I, sorted_edges) ==
    FoldSeq(LAMBDA st, e :
                IF SubsetTrie_find_subset(st.trie, edge(I, e))
                THEN [st EXCEPT !.items = Append(@, RemovedEdge(e))]
                ELSE st,
            [trie |-> SubsetTrie_new(num_nodes_total(I), FALSE), items |-> <<>>],
            sorted_edges).items

\* edges is instance.edges() after the sort by edge_size
find_dominated_edges(I, sorted_edges) ==
    FoldSeq(LAMBDA st, e :
                IF SubsetTrie_find_subset(st.trie, edge(I, e))
                THEN [st EXCEPT !.items = Append(@, RemovedEdge(e))]
                ELSE [st EXCEPT !.trie = SubsetTrie_insert(@, TRUE, edge(I, e))],
            [trie |-> SubsetTrie_new(num_nodes_total(I), FALSE), items |-> <<>>],
            sorted_edges).items

\* Mutant: the first node of an edge of two nodes is forced as well.
find_forced_nodes_of_pairs(I) ==
    {edge(I, e)[1] : e \in {f \in SeqToSet(edges(I)) : Len(edge(I, f)) \in {1, 2}}}

\* The IdxHashSet `forced`
find_forced_nodes(I) ==
    {edge(I, e)[1] : e \in {f \in SeqToSet(edges(I)) : Len(edge(I, f)) = 1}}

find_costly_discards_using_efficiency_bound(I, lower_bound_breakpoint, discard_efficieny_bounds) ==
    LET costly == SelectSeq(nodes(I), LAMBDA n :
                      UnwrapOrMaxAtLeast(EfficiencyBound_round(I, discard_efficieny_bounds[n]),
                                         lower_bound_breakpoint))
    IN [i \in 1..Len(costly) |-> ForcedNode(costly[i])]

\* Some(items), or Panic when calc_discard_bounds panics
find_costly_discards_using_packing_update(I, lower_bound_breakpoint, packing_bound) ==
    LET bounds == calc_discard_bounds(packing_bound, I)
    IN IF bounds = Panic THEN Panic
       ELSE LET costly == SelectSeq(bounds.value, LAMBDA b : b[2] >= lower_bound_breakpoint)
            IN Some([i \in 1..Len(costly) |-> ForcedNode(costly[i][1])])

\* find_costly_discard_using_packing_from_scratch: the lower bound computed
\* while the node is deleted
from_scratch_lower_bound(packing_bound, deleted, settings) ==
    IF settings.enable_sum_over_packing_bound
    THEN calc_sum_over_packing_bound(packing_bound, deleted)
    ELSE Some(PackingBound_bound(packing_bound))

\* find_costly_discard_using_packing_from_scratch: the node is restored and
\* becomes a forced node when the bound meets the breakpoint.  tentative lists
\* the instances the packing was computed on, each with one node deleted.
from_scratch_tried(new_lower_bound, deleted, n, lower_bound_breakpoint, tentative) ==
    [found |-> IF new_lower_bound = Panic THEN Panic
               ELSE IF new_lower_bound.value >= lower_bound_breakpoint
                    THEN Some(ForcedNode(n))
               ELSE None,
     instance |-> IF new_lower_bound = Panic THEN deleted
                  ELSE restore_node(deleted, n),
     tentative |-> Append(tentative, deleted)]

\* find_costly_discard_using_packing_from_scratch: one try, after delete_node
from_scratch_with_deleted(deleted, n, lower_bound_breakpoint, settings, tentative) ==
    from_scratch_tried(
        from_scratch_lower_bound(PackingBound_new(deleted, settings), deleted, settings),
        deleted, n, lower_bound_breakpoint, tentative)

\* found is None, Some((item, idx)) or Panic; the instance comes back with
\* every tried node deleted and restored.
find_costly_discard_using_packing_from_scratch(I, lower_bound_breakpoint, settings, sorted_nodes) ==
    IF settings.packing_from_scratch_limit = 0
    THEN [found |-> None, instance |-> I, tentative |-> <<>>]
    ELSE FoldSeq(LAMBDA st, n : IF st.found # None THEN st
                                ELSE from_scratch_with_deleted(delete_node(st.instance, n), n,
                                                               lower_bound_breakpoint, settings,
                                                               st.tentative),
                 [found |-> None, instance |-> I, tentative |-> <<>>],
                 SubSeq(sorted_nodes, 1,
                        Min({settings.packing_from_scratch_limit, Len(sorted_nodes)})))

\* Mutant: a greedy set as large as the best known one replaces it.
recalculate_greedy_upper_bound_not_smaller(I, partial_hs, minimum_hs) ==
    LET greedy == calc_greedy_approximation(I)
    IN IF Len(partial_hs) + Len(greedy) <= Len(minimum_hs)
       THEN partial_hs \o greedy
       ELSE minimum_hs

\* Mutant: the greedy set replaces the best known one whatever its size.
recalculate_greedy_upper_bound_always(I, partial_hs, minimum_hs) ==
    partial_hs \o calc_greedy_approximation(I)

\* The value of state.minimum_hs after the call
recalculate_greedy_upper_bound(I, partial_hs, minimum_hs) ==
    LET greedy == calc_greedy_approximation(I)
    IN IF Len(partial_hs) + Len(greedy) < Len(minimum_hs)
       THEN partial_hs \o greedy
       ELSE minimum_hs

\* What one pass of the loop of reduce leaves behind: the result it breaks
\* with ("continue" when the loop goes on), the items it found and applied, and
\* the counters of report.reductions it has incremented for a break or for
\* items found.  tentative lists the instances on which the pass ran the
\* packing from scratch.
Outcome(result, I, partial_hs, minimum_hs, items, counters) ==
    [result |-> result, instance |-> I, partial_hs |-> partial_hs,
     minimum_hs |-> minimum_hs, items |-> items, counters |-> counters,
     tentative |-> <<>>, breakpoints |-> <<>>]

\* The pass has computed lower_bound_breakpoint from minimum_hs and
\* partial_hs before it went on to `outcomes`: the lengths it subtracted are
\* put in front of the breakpoints computed later in the pass
WithBreakpoint(outcomes, minimum_hs, partial_hs) ==
    {[o EXCEPT !.breakpoints = << <<Len(minimum_hs), Len(partial_hs)>> >> \o @] :
        o \in outcomes}

\* reduced_item.apply for the items found in this pass
Applied(I, partial_hs, minimum_hs, items, counter) ==
    LET st == FoldSeq(ReducedItem_apply, [instance |-> I, partial_hs |-> partial_hs], items)
    IN Outcome("continue", st.instance, st.partial_hs, minimum_hs, items, {counter})

\* Mutant: the dominated edges are queued in the same pass as the dominated nodes.
reduce_dominations_found_both(I, partial_hs, minimum_hs, dominated_nodes, dominated_edges) ==
    {Applied(I, partial_hs, minimum_hs, items \o more, "vertex_dominations_vertices_found") :
        items \in dominated_nodes \ {<<>>}, more \in dominated_edges}
    \cup (IF <<>> \in dominated_nodes
          THEN {Applied(I, partial_hs, minimum_hs, items, "edge_dominations_edges_found") :
                   items \in dominated_edges \ {<<>>}}
               \cup (IF <<>> \in dominated_edges
                     THEN {Outcome("Finished", I, partial_hs, minimum_hs, <<>>, {})}
                     ELSE {})
          ELSE {})

\* reduce: the dominated nodes found, else the dominated edges found, else Finished
reduce_dominations_found(I, partial_hs, minimum_hs, dominated_nodes, dominated_edges) ==
    {Applied(I, partial_hs, minimum_hs, items, "vertex_dominations_vertices_found") :
        items \in dominated_nodes \ {<<>>}}
    \cup (IF <<>> \in dominated_nodes
          THEN {Applied(I, partial_hs, minimum_hs, items, "edge_dominations_edges_found") :
                   items \in dominated_edges \ {<<>>}}
               \cup (IF <<>> \in dominated_edges
                     THEN {Outcome("Finished", I, partial_hs, minimum_hs, <<>>, {})}
                     ELSE {})
          ELSE {})

\* reduce: vertex domination, edge domination, Finished
reduce_dominations(I, partial_hs, minimum_hs) ==
    reduce_dominations_found(I, partial_hs, minimum_hs,
        {find_dominated_nodes(I, sorted) :
            sorted \in KeySorted(nodes(I), LAMBDA n : 0 - node_degree(I, n))},
        {find_dominated_edges(I, sorted) :
            sorted \in KeySorted(edges(I), LAMBDA e : edge_size(I, e))})

\* reduce: what follows a run of the costly discard with a packing from scratch
reduce_after_from_scratch(t, partial_hs, minimum_hs) ==
    IF t.found = Panic
    THEN {Outcome("Panic", t.instance, partial_hs, minimum_hs, <<>>, {})}
    ELSE IF t.found = None
         THEN reduce_dominations(t.instance, partial_hs, minimum_hs)
    ELSE {Applied(t.instance, partial_hs, minimum_hs, <<t.found.value>>,
                  "costly_discard_packing_from_scratch_steps_per_run")}

\* reduce: the same, with the instances the packing from scratch ran on
reduce_from_scratch_found(t, partial_hs, minimum_hs) ==
    {[o EXCEPT !.tentative = t.tentative] :
        o \in reduce_after_from_scratch(t, partial_hs, minimum_hs)}

\* The nodes the packing from scratch can come to try: what take(limit)
\* leaves of the nodes sorted by descending degree, in any order of the ties
from_scratch_candidates(I, settings) ==
    {SubSeq(sorted, 1, Min({settings.packing_from_scratch_limit, Len(sorted)})) :
        sorted \in KeySorted(nodes(I), LAMBDA n : 0 - node_degree(I, n))}

\* reduce: costly discard with a packing from scratch, then the dominations
reduce_from_scratch(I, partial_hs, minimum_hs, settings, lower_bound_breakpoint) ==
    UNION {reduce_from_scratch_found(
               find_costly_discard_using_packing_from_scratch(
                   I, lower_bound_breakpoint, settings, sorted),
               partial_hs, minimum_hs) :
           sorted \in IF settings.packing_from_scratch_limit = 0
                      THEN {<<>>}
                      ELSE from_scratch_candidates(I, settings)}

\* reduce: the tests after the greedy recalculation of
\* AlwaysBeforeExpensiveReductions, which also moves the breakpoint
reduce_greedy_before_expensive(I, partial_hs, minimum_hs, settings, lower_bound_breakpoint, recalculated) ==
    IF recalculated /\ Len(minimum_hs) <= settings.stop_at
    THEN {Outcome("Stop", I, partial_hs, minimum_hs, <<>>, {})}
    ELSE IF recalculated /\ Len(partial_hs) >= Len(minimum_hs)
         THEN {Outcome("Unsolvable", I, partial_hs, minimum_hs, <<>>, {})}
    ELSE IF recalculated
         THEN WithBreakpoint(reduce_from_scratch(I, partial_hs, minimum_hs, settings,
                                                 Len(minimum_hs) - Len(partial_hs)),
                             minimum_hs, partial_hs)
    ELSE reduce_from_scratch(I, partial_hs, minimum_hs, settings, lower_bound_breakpoint)

\* reduce: the greedy recalculation of AlwaysBeforeExpensiveReductions
reduce_expensive(I, partial_hs, minimum_hs, settings, lower_bound_breakpoint) ==
    reduce_greedy_before_expensive(I, partial_hs,
        IF settings.greedy_mode = "AlwaysBeforeExpensiveReductions"
        THEN recalculate_greedy_upper_bound(I, partial_hs, minimum_hs)
        ELSE minimum_hs,
        settings, lower_bound_breakpoint,
        settings.greedy_mode = "AlwaysBeforeExpensiveReductions")

\* reduce: the items the cheap rules found, in the order the loop runs them
reduce_rules_found(I, partial_hs, minimum_hs, settings, lower_bound_breakpoint, forced, by_efficiency, by_packing) ==
    IF forced # {}
    THEN \* the items come out of the hash set in an order of its own
         {Applied(I, partial_hs, minimum_hs, [i \in 1..Len(p) |-> ForcedNode(p[i])],
                  "forced_vertices_found") : p \in Perms(forced)}
    ELSE IF by_efficiency # <<>>
         THEN {Applied(I, partial_hs, minimum_hs, by_efficiency,
                       "costly_discard_efficiency_vertices_found")}
    ELSE IF by_packing = Panic
         THEN {Outcome("Panic", I, partial_hs, minimum_hs, <<>>, {})}
    ELSE IF by_packing.value # <<>>
         THEN {Applied(I, partial_hs, minimum_hs, by_packing.value,
                       "costly_discard_packing_update_vertices_found")}
    ELSE reduce_expensive(I, partial_hs, minimum_hs, settings, lower_bound_breakpoint)

\* reduce: forced vertices and the costly discards by the bounds already computed
reduce_rules(I, partial_hs, minimum_hs, settings, lower_bound_breakpoint, discard_efficiency_bounds, packing_bound) ==
    reduce_rules_found(I, partial_hs, minimum_hs, settings, lower_bound_breakpoint,
        find_forced_nodes(I),
        IF settings.enable_efficiency_bound
        THEN find_costly_discards_using_efficiency_bound(
                 I, lower_bound_breakpoint, discard_efficiency_bounds)
        ELSE <<>>,
        IF settings.enable_packing_bound
        THEN find_costly_discards_using_packing_update(
                 I, lower_bound_breakpoint, packing_bound)
        ELSE Some(<<>>))

\* reduce: the lower bounds against the breakpoint, in the order of the loop
reduce_bounds_computed(I, partial_hs, minimum_hs, settings, lower_bound_breakpoint, max_degree_bound, efficiency, packing_bound, sum_over_packing_bound) ==
    IF settings.enable_max_degree_bound /\ max_degree_bound = Panic
    THEN {Outcome("Panic", I, partial_hs, minimum_hs, <<>>, {})}
    ELSE IF settings.enable_max_degree_bound
            /\ UnwrapOrMaxAtLeast(max_degree_bound, lower_bound_breakpoint)
         THEN {Outcome("Unsolvable", I, partial_hs, minimum_hs, <<>>, {"max_degree_bound_breaks"})}
    ELSE IF settings.enable_sum_degree_bound
            /\ calc_sum_degree_bound(I) >= lower_bound_breakpoint
         THEN {Outcome("Unsolvable", I, partial_hs, minimum_hs, <<>>, {"sum_degree_bound_breaks"})}
    ELSE IF settings.enable_efficiency_bound
            /\ UnwrapOrMaxAtLeast(EfficiencyBound_round(I, efficiency.bound),
                                  lower_bound_breakpoint)
         THEN {Outcome("Unsolvable", I, partial_hs, minimum_hs, <<>>, {"efficiency_degree_bound_breaks"})}
    ELSE IF settings.enable_packing_bound
            /\ PackingBound_bound(packing_bound) >= lower_bound_breakpoint
         THEN {Outcome("Unsolvable", I, partial_hs, minimum_hs, <<>>, {"packing_bound_breaks"})}
    ELSE IF settings.enable_packing_bound /\ settings.enable_sum_over_packing_bound
            /\ sum_over_packing_bound = Panic
         THEN {Outcome("Panic", I, partial_hs, minimum_hs, <<>>, {})}
    ELSE IF settings.enable_packing_bound /\ settings.enable_sum_over_packing_bound
            /\ sum_over_packing_bound.value >= lower_bound_breakpoint
         THEN {Outcome("Unsolvable", I, partial_hs, minimum_hs, <<>>, {"sum_over_packing_bound_breaks"})}
    ELSE reduce_rules(I, partial_hs, minimum_hs, settings, lower_bound_breakpoint,
                      efficiency.discard_bounds, packing_bound)

\* reduce: the bounds that are computed from the packing
reduce_bounds_packed(I, partial_hs, minimum_hs, settings, packing_bound) ==
    WithBreakpoint(
        reduce_bounds_computed(I, partial_hs, minimum_hs, settings,
            Len(minimum_hs) - Len(partial_hs),
            calc_max_degree_bound(I), calc_efficiency_bound(I),
            packing_bound, calc_sum_over_packing_bound(packing_bound, I)),
        minimum_hs, partial_hs)

\* reduce: the lower bounds against the breakpoint
reduce_bounds(I, partial_hs, minimum_hs, settings) ==
    reduce_bounds_packed(I, partial_hs, minimum_hs, settings,
        IF settings.enable_packing_bound THEN PackingBound_new(I, settings) ELSE <<>>)

\* reduce: the tests after the greedy recalculation of AlwaysBeforeBounds
reduce_greedy_before_bounds(I, partial_hs, minimum_hs, settings, recalculated) ==
    IF recalculated /\ Len(minimum_hs) <= settings.stop_at
    THEN {Outcome("Stop", I, partial_hs, minimum_hs, <<>>, {})}
    ELSE IF recalculated /\ Len(partial_hs) >= Len(minimum_hs)
         THEN {Outcome("Unsolvable", I, partial_hs, minimum_hs, <<>>, {})}
    ELSE reduce_bounds(I, partial_hs, minimum_hs, settings)

\* Mutant: the loop does not compare partial_hs with minimum_hs first.
reduce_pass_unchecked(I, partial_hs, minimum_hs, settings) ==
    IF num_edges(I) = 0
    THEN {Outcome("Solved", I, partial_hs, minimum_hs, <<>>, {})}
    ELSE IF Len(partial_hs) >= Len(minimum_hs)
         THEN {Outcome("Unsolvable", I, partial_hs, minimum_hs, <<>>, {})}
    ELSE reduce_greedy_before_bounds(I, partial_hs,
             IF settings.greedy_mode = "AlwaysBeforeBounds"
             THEN recalculate_greedy_upper_bound(I, partial_hs, minimum_hs)
             ELSE minimum_hs,
             settings, settings.greedy_mode = "AlwaysBeforeBounds")

\* Mutant: on an instance without edges the loop goes on instead of breaking with Solved.
reduce_pass_goes_on(I, partial_hs, minimum_hs, settings) ==
    IF Len(partial_hs) >= Len(minimum_hs)
    THEN {Outcome("Unsolvable", I, partial_hs, minimum_hs, <<>>, {})}
    ELSE IF num_edges(I) = 0
         THEN {Outcome("continue", I, partial_hs, minimum_hs, <<>>, {})}
    ELSE reduce_greedy_before_bounds(I, partial_hs,
             IF settings.greedy_mode = "AlwaysBeforeBounds"
             THEN recalculate_greedy_upper_bound(I, partial_hs, minimum_hs)
             ELSE minimum_hs,
             settings, settings.greedy_mode = "AlwaysBeforeBounds")

\* Mutant: the loop does not break when partial_hs has reached minimum_hs.
reduce_pass_no_unsolvable(I, partial_hs, minimum_hs, settings) ==
    IF num_edges(I) = 0
    THEN {Outcome("Solved", I, partial_hs, minimum_hs, <<>>, {})}
    ELSE reduce_greedy_before_bounds(I, partial_hs,
             IF settings.greedy_mode = "AlwaysBeforeBounds"
             THEN recalculate_greedy_upper_bound(I, partial_hs, minimum_hs)
             ELSE minimum_hs,
             settings, settings.greedy_mode = "AlwaysBeforeBounds")

\* One pass of the loop of reduce: the set of outcomes it can have
reduce_pass(I, partial_hs, minimum_hs, settings) ==
    IF Len(partial_hs) >= Len(minimum_hs)
    THEN {Outcome("Unsolvable", I, partial_hs, minimum_hs, <<>>, {})}
    ELSE IF num_edges(I) = 0
         THEN {Outcome("Solved", I, partial_hs, minimum_hs, <<>>, {})}
    ELSE reduce_greedy_before_bounds(I, partial_hs,
             IF settings.greedy_mode = "AlwaysBeforeBounds"
             THEN recalculate_greedy_upper_bound(I, partial_hs, minimum_hs)
             ELSE minimum_hs,
             settings, settings.greedy_mode = "AlwaysBeforeBounds")

(***************************************************************************)
(* SpecSolve: the branch-and-bound search.  reduce, the bounds and the     *)
(* greedy approximation are those of reductions.rs and lower_bound.rs; the *)
(* driver around them keeps minimum_hs as reductions.rs expects it.        *)
(***************************************************************************)
MaxScratchLimit == 1
MaxStopAt == 3

GreedyModes == {"Once", "AlwaysBeforeBounds", "AlwaysBeforeExpensiveReductions"}

\* The settings: the four bounds one at a time, none or all of them, and the
\* packing options where something builds a packing.
AllSettings ==
    {s \in [enable_local_search : BOOLEAN,
            enable_max_degree_bound : BOOLEAN,
            enable_sum_degree_bound : BOOLEAN,
            enable_efficiency_bound : BOOLEAN,
            enable_packing_bound : BOOLEAN,
            enable_sum_over_packing_bound : BOOLEAN,
            packing_from_scratch_limit : 0..MaxScratchLimit,
            greedy_mode : GreedyModes,
            stop_at : {0, MaxStopAt - 1, MaxStopAt}] :
        LET enabled == <<s.enable_max_degree_bound, s.enable_sum_degree_bound,
                         s.enable_efficiency_bound, s.enable_packing_bound>>
        IN /\ Cardinality({b \in 1..4 : enabled[b]}) \in {0, 1, 4}
           /\ (s.enable_local_search \/ s.enable_sum_over_packing_bound)
                  => (s.enable_packing_bound \/ s.packing_from_scratch_limit > 0)}

\* The settings a solve of the small instances is run with: optimal, or
\* stopping at MaxStopAt, the two packing options both on or both off
SolveSettings ==
    {s \in AllSettings :
        /\ s.stop_at \in {0, MaxStopAt}
        /\ s.enable_local_search = s.enable_sum_over_packing_bound}

\* Shorter first, then lexicographic
SeqLeq(a, b) ==
    \/ Len(a) < Len(b)
    \/ a = b
    \/ /\ Len(a) = Len(b)
       /\ \E k \in 1..Len(a) : (\A j \in 1..(k - 1) : a[j] = b[j]) /\ a[k] < b[k]

SortedSeq(es) == \A i \in 1..(Len(es) - 1) : SeqLeq(es[i], es[i + 1])

\* Instances on which the greedy approximation is not optimal, on which it is
\* optimal while a vertex of maximum degree is in no minimum hitting set, on
\* which the search has to branch, and on which an edge contains another
\* without any vertex dominating another
HardInputs ==
    { <<5, << <<0, 4>>, <<1, 4>>, <<0, 2>>, <<1, 3>> >> >>,
      <<5, << <<0, 3>>, <<0, 4>>, <<1, 3>>, <<2, 4>> >> >>,
      <<4, << <<0, 1>>, <<0, 2>>, <<1, 2>>, <<1, 3>>, <<2, 3>> >> >>,
      <<3, << <<0, 1>>, <<1, 2>>, <<0, 2>>, <<0, 1, 2>> >> >> }

\* The instances a solve is run on: every instance on MaxNodes vertices, one
\* order of its edge list each, and the hard ones
SolveInputs ==
    {in \in WellFormedInputs : in[1] = MaxNodes /\ SortedSeq(in[2])} \cup HardInputs

\* An instance no reduction rule applies to and on which the greedy
\* approximation is not optimal: the search branches below a greedy bound it
\* then improves.  It is solved without the packing options.
DeepInputs == { <<5, << <<0, 1>>, <<2, 3>>, <<0, 2, 4>>, <<1, 3, 4>> >> >> }

DeepSettings ==
    {s \in AllSettings :
        /\ s.packing_from_scratch_limit = 0 /\ ~s.enable_local_search
        /\ s.enable_max_degree_bound = s.enable_packing_bound
        /\ s.enable_sum_degree_bound = s.enable_packing_bound
        /\ s.enable_efficiency_bound = s.enable_packing_bound}

\* With no bound enabled and the packing from scratch tried on one vertex,
\* the rule fails at the root and is run again below the branches.
DeepScratchSettings ==
    {s \in AllSettings :
        /\ s.packing_from_scratch_limit = 1
        /\ ~s.enable_local_search /\ ~s.enable_sum_over_packing_bound
        /\ ~s.enable_max_degree_bound /\ ~s.enable_packing_bound
        /\ s.greedy_mode = "Once" /\ s.stop_at = 0}

\* The settings the instances on MaxNodes vertices are solved with: no bound
\* or all four
SmallSettings ==
    {s \in SolveSettings :
        /\ s.enable_max_degree_bound = s.enable_packing_bound
        /\ s.enable_sum_degree_bound = s.enable_packing_bound
        /\ s.enable_efficiency_bound = s.enable_packing_bound}

\* The settings an instance is solved with
SettingsFor(in) ==
    IF in \in DeepInputs THEN DeepSettings \cup DeepScratchSettings
    ELSE IF in \in HardInputs THEN SolveSettings
    ELSE SmallSettings

\* The frame of a call of solve_recursive: pc is "reduce" (reduce not yet
\* entered), "loop" (inside the loop of reduce), "match" (reduce has returned
\* result and the items in reduced_items) or "restore". called_with records
\* the instance and partial_hs the call was made with, tentative the instances
\* on which the last pass of reduce ran the packing from scratch, found the
\* counters of report.reductions that pass has incremented, passes the number
\* of passes of the loop so far, breakpoints the lengths of minimum_hs and
\* partial_hs from which the last pass computed lower_bound_breakpoint.
SolveRecursiveFrame(I, partial_hs) ==
    [fn |-> "solve_recursive", pc |-> "reduce", reduced_items |-> <<>>, result |-> "none",
     called_with |-> [instance |-> I, partial_hs |-> partial_hs],
     tentative |-> <<>>, found |-> {}, passes |-> 0, breakpoints |-> <<>>]

\* The frame of a call of branch_on: takes[i] tells whether the i-th recursive
\* call is the one with node_idx in the hitting set. called_with records the
\* instance and partial_hs the call was made with.
BranchOnFrame(node_idx, take_first, I, partial_hs) ==
    [fn |-> "branch_on", pc |-> "call", node_idx |-> node_idx,
     takes |-> <<take_first, ~take_first>>, i |-> 1,
     called_with |-> [instance |-> I, partial_hs |-> partial_hs]]

Running == solver.status = "running" /\ solver.stack # <<>>
Frame == Top(solver.stack)
SetFrame(stack, frame) == [stack EXCEPT ![Len(stack)] = frame]

outsideSolve == <<sv, svStack, inst0, ops, trie, inserted, answer>>

\* The state solve starts from: minimum_hs is seeded with all vertices.
\* reductions holds the counters of report.reductions that are above zero.
SolveState(settings, I) ==
    [settings |-> settings,
     partial_hs |-> <<>>,
     minimum_hs |-> [i \in 1..num_nodes_total(I) |-> i - 1],
     upper_bound_improvements |-> <<>>,
     branching_steps |-> 0,
     reductions |-> {},
     early_exit |-> FALSE,
     status |-> "running",
     stack |-> <<SolveRecursiveFrame(I, <<>>)>>]

\* solve: the instance is loaded and the search starts
InitSolve ==
    /\ \E in \in SolveInputs \cup DeepInputs :
         /\ inst = load(in[1], in[2]).instance
         /\ \E settings \in SettingsFor(in) : solver = SolveState(settings, inst)
    /\ inst0 = inst
    /\ ops = <<>>
    /\ SkipIdle
    /\ TrieIdle

\* report.upper_bound_improvements after minimum_hs went from `old` to `new`
Improvements(list, kind, old, new) ==
    IF new = old THEN list ELSE Append(list, <<kind, Len(new)>>)

\* reduce, up to its loop: the greedy recalculation of GreedyMode::Once
ReduceEnter ==
    /\ Running
    /\ Frame.fn = "solve_recursive" /\ Frame.pc = "reduce"
    /\ LET improved == IF solver.settings.greedy_mode = "Once"
                       THEN recalculate_greedy_upper_bound(inst, solver.partial_hs,
                                                           solver.minimum_hs)
                       ELSE solver.minimum_hs
           stop == solver.settings.greedy_mode = "Once"
                   /\ Len(improved) <= solver.settings.stop_at
       IN solver' = [solver EXCEPT
                        !.minimum_hs = improved,
                        !.upper_bound_improvements =
                            Improvements(@, "greedy", solver.minimum_hs, improved),
                        !.stack = SetFrame(@, [Frame EXCEPT
                                      !.pc = IF stop THEN "match" ELSE "loop",
                                      !.result = IF stop THEN "Stop" ELSE "none"])]
    /\ UNCHANGED <<inst, outsideSolve>>

\* reduce, one pass of its loop
ReducePass ==
    /\ Running
    /\ Frame.fn = "solve_recursive" /\ Frame.pc = "loop"
    /\ \E o \in reduce_pass(inst, solver.partial_hs, solver.minimum_hs, solver.settings) :
         /\ inst' = o.instance
         /\ solver' = [solver EXCEPT
                          !.partial_hs = o.partial_hs,
                          !.minimum_hs = o.minimum_hs,
                          !.upper_bound_improvements =
                              Improvements(@, "greedy", solver.minimum_hs, o.minimum_hs),
                          !.reductions = @ \cup o.counters,
                          !.status = IF o.result = "Panic" THEN "panic" ELSE @,
                          !.stack = SetFrame(@, [Frame EXCEPT
                                        !.pc = IF o.result = "continue" THEN "loop" ELSE "match",
                                        !.result = o.result,
                                        !.reduced_items = @ \o o.items,
                                        !.tentative = o.tentative,
                                        !.found = o.counters,
                                        !.breakpoints = o.breakpoints,
                                        !.passes = @ + 1])]
    /\ UNCHANGED outsideSolve

Returned(result) ==
    /\ Running
    /\ Frame.fn = "solve_recursive" /\ Frame.pc = "match" /\ Frame.result = result

\* solve_recursive, Solved
MatchSolved ==
    /\ Returned("Solved")
    /\ LET improved == IF Len(solver.partial_hs) < Len(solver.minimum_hs)
                       THEN solver.partial_hs
                       ELSE solver.minimum_hs
       IN solver' = [solver EXCEPT
                        !.minimum_hs = improved,
                        !.upper_bound_improvements =
                            Improvements(@, "solved", solver.minimum_hs, improved),
                        !.stack = SetFrame(@, [Frame EXCEPT !.pc = "restore"])]
    /\ UNCHANGED <<inst, outsideSolve>>

\* solve_recursive, Unsolvable
MatchUnsolvable ==
    /\ Returned("Unsolvable")
    /\ solver' = [solver EXCEPT !.stack = SetFrame(@, [Frame EXCEPT !.pc = "restore"])]
    /\ UNCHANGED <<inst, outsideSolve>>

\* solve_recursive, Stop
MatchStop ==
    /\ Returned("Stop")
    /\ solver' = [solver EXCEPT !.early_exit = TRUE,
                                !.stack = SetFrame(@, [Frame EXCEPT !.pc = "restore"])]
    /\ UNCHANGED <<inst, outsideSolve>>

\* solve_recursive, Finished: a node is picked and branch_on deletes it
BranchOn(node_idx, take_first) ==
    /\ Returned("Finished")
    /\ node_idx \in AliveNodes(inst)
    /\ inst' = delete_node(inst, node_idx)
    /\ solver' = [solver EXCEPT
                     !.branching_steps = @ + 1,
                     !.stack = Append(SetFrame(@, [Frame EXCEPT !.pc = "restore"]),
                                      BranchOnFrame(node_idx, take_first,
                                                    inst, solver.partial_hs))]
    /\ UNCHANGED outsideSolve

\* Mutant: the node is taken into the hitting set in both calls.
BranchCall_takes_twice ==
    /\ Running
    /\ Frame.fn = "branch_on" /\ Frame.pc = "call"
    /\ LET taken == IF Frame.takes[Frame.i]
                    THEN delete_incident_edges(inst, Frame.node_idx) ELSE inst
           partial_hs == Append(solver.partial_hs, Frame.node_idx)
       IN /\ inst' = taken
          /\ solver' = [solver EXCEPT
                           !.partial_hs = partial_hs,
                           !.stack = Append(SetFrame(@, [Frame EXCEPT !.pc = "return"]),
                                            SolveRecursiveFrame(taken, partial_hs))]
    /\ UNCHANGED outsideSolve

\* branch_on: the node is taken or not, and solve_recursive is called
BranchCall ==
    /\ Running
    /\ Frame.fn = "branch_on" /\ Frame.pc = "call"
    /\ LET take == Frame.takes[Frame.i]
           taken == IF take THEN delete_incident_edges(inst, Frame.node_idx) ELSE inst
           partial_hs == IF take THEN Append(solver.partial_hs, Frame.node_idx)
                         ELSE solver.partial_hs
       IN /\ inst' = taken
          /\ solver' = [solver EXCEPT
                           !.partial_hs = partial_hs,
                           !.stack = Append(SetFrame(@, [Frame EXCEPT !.pc = "return"]),
                                            SolveRecursiveFrame(taken, partial_hs))]
    /\ UNCHANGED outsideSolve

\* branch_on: solve_recursive has returned; the take is undone, and after the
\* second call, or on an early exit, the node is restored
BranchReturn ==
    /\ Running
    /\ Frame.fn = "branch_on" /\ Frame.pc = "return"
    /\ LET take == Frame.takes[Frame.i]
           untaken == IF take THEN restore_incident_edges(inst, Frame.node_idx) ELSE inst
           again == Frame.i = 1 /\ ~solver.early_exit
       IN /\ inst' = IF again THEN untaken ELSE restore_node(untaken, Frame.node_idx)
          /\ solver' = [solver EXCEPT
                           !.partial_hs = IF take THEN Pop(@) ELSE @,
                           !.stack = IF again
                                     THEN SetFrame(@, [Frame EXCEPT !.pc = "call", !.i = 2])
                                     ELSE Pop(@)]
    /\ UNCHANGED outsideSolve

\* solve_recursive: batch.restore; solve returns when the outermost call does
RestoreBatch ==
    /\ Running
    /\ Frame.fn = "solve_recursive" /\ Frame.pc = "restore"
    /\ LET restored == Reduction_restore(Frame.reduced_items, inst, solver.partial_hs)
       IN /\ inst' = restored.instance
          /\ solver' = [solver EXCEPT
                           !.partial_hs = restored.partial_hs,
                           !.stack = Pop(@),
                           !.status = IF Len(solver.stack) = 1 THEN "done" ELSE @]
    /\ UNCHANGED outsideSolve

NextSolve ==
    \/ ReduceEnter
    \/ ReducePass
    \/ MatchSolved
    \/ MatchUnsolvable
    \/ MatchStop
    \/ \E node_idx \in DOMAIN inst.node_incidences, take_first \in BOOLEAN :
           BranchOn(node_idx, take_first)
    \/ BranchCall
    \/ BranchReturn
    \/ RestoreBatch

SpecSolve == InitSolve /\ [][NextSolve]_vars

\* solve has returned; its result is solver.minimum_hs
SolveReturned == solver.status = "done"

ReturnedHittingSet == SeqToSet(solver.minimum_hs) \in HittingSets(inst0)

ReturnedMinimum == Len(solver.minimum_hs) = MinimumHittingSetSize(inst0)

ApplyItems(I, items) ==
    FoldSeq(ReducedItem_apply, [instance |-> I, partial_hs |-> <<>>], items).instance

FindDominatedNodes ==
    /\ answer = Idle
    /\ \E sorted \in KeySorted(nodes(inst), LAMBDA n : 0 - node_degree(inst, n)) :
          LET items == find_dominated_nodes(inst, sorted)
          IN /\ inst' = ApplyItems(inst, items)
             /\ answer' = [op |-> "dominated_nodes", instance |-> inst, items |-> items]
    /\ UNCHANGED <<sv, svStack, inst0, ops, trie, inserted, solver>>

FindDominatedEdges ==
    /\ answer = Idle
    /\ \E sorted \in KeySorted(edges(inst), LAMBDA e : edge_size(inst, e)) :
          LET items == find_dominated_edges(inst, sorted)
          IN /\ inst' = ApplyItems(inst, items)
             /\ answer' = [op |-> "dominated_edges", instance |-> inst, items |-> items]
    /\ UNCHANGED <<sv, svStack, inst0, ops, trie, inserted, solver>>

\* A rule is run once, on the instance reached.
NextRules ==
    \/ answer = Idle /\ Len(ops) < MaxBoundOps /\ \E v \in DOMAIN inst.node_incidences : DeleteNode(v)
    \/ answer = Idle /\ Len(ops) < MaxBoundOps /\ \E e \in DOMAIN inst.edge_incidences : DeleteEdge(e)
    \/ answer = Idle /\ Len(ops) < MaxBoundOps /\ \E v \in DOMAIN inst.node_incidences : DeleteIncidentEdges(v)
    \/ FindDominatedNodes
    \/ FindDominatedEdges

SpecRules == InitBound /\ [][NextRules]_vars

\* The vertices or edges a rule has emitted
Emitted == {answer.items[i].idx : i \in 1..Len(answer.items)}

\* N(v), the alive edges of v
N(I, v) == SeqToSet(node(I, v))

DominatedNodesAnswered ==
    /\ answer # Idle
    /\ answer.op = "dominated_nodes"
    /\ EveryEdgeHasNode(answer.instance)

\* Every item is a RemovedNode of an alive vertex, and deleting them leaves
\* the minimum hitting-set size as it was
DominatedNodesKeepOptimum ==
    /\ \A i \in 1..Len(answer.items) : answer.items[i].kind = "RemovedNode"
    /\ Emitted \subseteq AliveNodes(answer.instance)
    /\ AliveNodes(inst) = AliveNodes(answer.instance) \ Emitted
    /\ EveryEdgeHasNode(inst)
    /\ MinimumHittingSetSize(inst) = MinimumHittingSetSize(answer.instance)

\* Every emitted vertex is dominated by an alive vertex that is not emitted
EmittedNodesAreDominated ==
    \A v \in Emitted :
        \E w \in AliveNodes(answer.instance) \ Emitted :
            w # v /\ N(answer.instance, v) \subseteq N(answer.instance, w)

\* Of two alive vertices with the same incident edges, one with those incident
\* edges is not emitted
OneOfEachClassKept ==
    \A u, v \in AliveNodes(answer.instance) :
        (u # v /\ N(answer.instance, u) = N(answer.instance, v)) =>
            \E w \in AliveNodes(answer.instance) \ Emitted :
                N(answer.instance, w) = N(answer.instance, v)

\* Of two alive vertices with the same incident edges one with those incident
\* edges is not emitted, unless a vertex that is not emitted has more
OneOfEachClassKeptOrDominated ==
    \A u, v \in AliveNodes(answer.instance) :
        (u # v /\ N(answer.instance, u) = N(answer.instance, v)) =>
            \E w \in AliveNodes(answer.instance) \ Emitted :
                /\ N(answer.instance, v) \subseteq N(answer.instance, w)
                /\ \/ N(answer.instance, w) = N(answer.instance, v)
                   \/ {u, v} \subseteq Emitted

\* C11, as claimed: deleting the vertices find_dominated_nodes emits in one
\* pass leaves the minimum hitting-set size of the alive instance unchanged;
\* among alive vertices with identical incident-edge sets at least one is not
\* emitted, and every emitted vertex v has an alive vertex w # v that is not
\* emitted with N(v) a subset of N(w).
C11_DominatedNodesOneKept ==
    DominatedNodesAnswered =>
        /\ DominatedNodesKeepOptimum
        /\ OneOfEachClassKept
        /\ EmittedNodesAreDominated

\* C11, amended: the minimum hitting-set size is unchanged and every emitted
\* vertex is dominated by an alive vertex that is not emitted; vertices with
\* identical incident-edge sets are all emitted when a vertex that is not
\* emitted has more incident edges than they have, and otherwise one of them
\* is not emitted.
C11_DominatedNodesKeepOptimum ==
    DominatedNodesAnswered =>
        /\ DominatedNodesKeepOptimum
        /\ OneOfEachClassKeptOrDominated
        /\ EmittedNodesAreDominated

\* After a deletion, of two vertices with the same incident edges one was
\* emitted and the other kept.
C11_Witness ==
    /\ DominatedNodesAnswered
    /\ ops # <<>>
    /\ \E v \in Emitted, w \in AliveNodes(inst) :
          N(answer.instance, v) = N(answer.instance, w) /\ N(answer.instance, v) # {}

\* V(e), the alive vertices of e
V(I, e) == SeqToSet(edge(I, e))

DominatedEdgesAnswered == answer # Idle /\ answer.op = "dominated_edges"

\* An edge is emitted exactly when an alive edge that is not emitted has its
\* vertices among those of the edge
EmittedEdgesAreTheDominated ==
    /\ \A i \in 1..Len(answer.items) : answer.items[i].kind = "RemovedEdge"
    /\ AliveEdges(inst) = AliveEdges(answer.instance) \ Emitted
    /\ \A e \in AliveEdges(answer.instance) :
          e \in Emitted <=>
              \E f \in AliveEdges(answer.instance) \ Emitted :
                  f # e /\ V(answer.instance, f) \subseteq V(answer.instance, e)

\* Of two alive edges with the same vertices, exactly one with those vertices
\* is not emitted
ExactlyOneOfEachClassKept ==
    \A d, e \in AliveEdges(answer.instance) :
        (d # e /\ V(answer.instance, d) = V(answer.instance, e)) =>
            Cardinality({f \in AliveEdges(answer.instance) \ Emitted :
                            V(answer.instance, f) = V(answer.instance, e)}) = 1

\* Deleting the emitted edges leaves the minimum hitting-set size as it was
DominatedEdgesKeepOptimum ==
    EveryEdgeHasNode(answer.instance) =>
        MinimumHittingSetSize(inst) = MinimumHittingSetSize(answer.instance)

\* No alive edge is left whose vertices contain those of another alive edge
NoDominatedEdgeLeft ==
    \A e, f \in AliveEdges(inst) : f # e => ~(V(inst, f) \subseteq V(inst, e))

\* Of two alive edges with the same vertices at most one with those vertices
\* is not emitted, and one is unless an alive edge has fewer
AtMostOneOfEachClassKept ==
    \A d, e \in AliveEdges(answer.instance) :
        (d # e /\ V(answer.instance, d) = V(answer.instance, e)) =>
            LET kept == {f \in AliveEdges(answer.instance) \ Emitted :
                            V(answer.instance, f) = V(answer.instance, e)}
            IN /\ Cardinality(kept) <= 1
               /\ kept = {} =>
                     \E f \in AliveEdges(answer.instance) \ Emitted :
                         /\ V(answer.instance, f) \subseteq V(answer.instance, e)
                         /\ V(answer.instance, f) # V(answer.instance, e)

\* C12, as claimed: find_dominated_edges emits an alive edge e exactly when
\* some alive edge f # e that is not emitted has V(f) a subset of V(e); of
\* several edges with identical vertex sets exactly one is kept; deleting the
\* emitted edges leaves the minimum hitting-set size unchanged and leaves no
\* alive edge whose vertex set contains that of another alive edge.
C12_DominatedEdgesOneKept ==
    DominatedEdgesAnswered =>
        /\ EmittedEdgesAreTheDominated
        /\ ExactlyOneOfEachClassKept
        /\ DominatedEdgesKeepOptimum
        /\ NoDominatedEdgeLeft

\* C12, amended: as claimed, except that of several edges with identical
\* vertex sets none is kept when an alive edge with fewer vertices is
\* contained in them, and exactly one otherwise.
C12_DominatedEdgesRemoved ==
    DominatedEdgesAnswered =>
        /\ EmittedEdgesAreTheDominated
        /\ AtMostOneOfEachClassKept
        /\ DominatedEdgesKeepOptimum
        /\ NoDominatedEdgeLeft

\* After a deletion, of two edges with the same vertices one was emitted and
\* the other kept, and an edge that contains them was emitted too.
C12_Witness ==
    /\ DominatedEdgesAnswered
    /\ ops # <<>>
    /\ \E d, e \in Emitted, f \in AliveEdges(inst) :
          /\ V(answer.instance, d) = V(answer.instance, f)
          /\ V(answer.instance, f) \subseteq V(answer.instance, e)
          /\ V(answer.instance, f) # V(answer.instance, e)

(***************************************************************************)
(* Forced vertices, in SpecSolve                                           *)
(***************************************************************************)
MinimumHittingSets(I) ==
    {H \in HittingSets(I) : Cardinality(H) = MinimumHittingSetSize(I)}

\* This step is a pass of the loop of reduce
IsReducePass ==
    /\ Running
    /\ Frame.fn = "solve_recursive" /\ Frame.pc = "loop"
    /\ solver' # solver

\* The vertices the pass of this step has emitted as ForcedNode
ForcedInPass ==
    LET old == Frame.reduced_items
        new == solver'.stack[Len(solver.stack)].reduced_items
    IN {new[i].idx : i \in {j \in (Len(old) + 1)..Len(new) : new[j].kind = "ForcedNode"}}

\* The breakpoint the rules of the pass of this step have compared with
PassBreakpoint == Len(solver'.minimum_hs) - Len(solver.partial_hs)

MaxTextNodes == 2
MaxTextLines == 2

\* Instance::load_from_text after the first line, which gives
\* node_count and edge_count: lines
\* holds the numbers of each of the lines that follow; a line that is missing
\* reads as an empty one.  The first number of a line is skipped.
load_from_text(node_count, edge_count, lines) ==
    LET read == [i \in 1..edge_count |-> IF i <= Len(lines) THEN lines[i] ELSE <<>>]
    IN IF \E i \in 1..edge_count :
              read[i] = <<>> \/ handle_edge(node_count, Tail(read[i])).is_ok = FALSE
       THEN [is_ok |-> FALSE]
       ELSE load(node_count, [i \in 1..edge_count |-> Tail(read[i])])

\* The lines of a text: nothing, or a degree and a list of vertex indices
TextLines ==
    {<<>>} \cup {<<d>> \o is : d \in 0..MaxTextNodes,
                                is \in SeqsUpTo(0..MaxTextNodes, MaxTextNodes)}

InitLoad ==
    /\ \E node_count \in 0..MaxTextNodes, edge_count \in 0..MaxTextLines,
          lines \in SeqsUpTo(TextLines, MaxTextLines) :
          answer = [op |-> "text", num_nodes |-> node_count, num_edges |-> edge_count,
                    lines |-> lines]
    /\ InstIdle
    /\ SkipIdle
    /\ trie = Idle
    /\ inserted = <<>>
    /\ SolverIdle

\* The instance is constructed only when loading succeeds
LoadFromText ==
    /\ answer # Idle
    /\ answer.op = "text"
    /\ LET loaded == load_from_text(answer.num_nodes, answer.num_edges, answer.lines)
       IN /\ answer' = [op |-> "loaded", text |-> answer, is_ok |-> loaded.is_ok]
          /\ inst' = IF loaded.is_ok THEN loaded.instance ELSE inst
    /\ UNCHANGED <<sv, svStack, inst0, ops, trie, inserted, solver>>

NextLoad == LoadFromText

SpecLoad == InitLoad /\ [][NextLoad]_vars

Loaded == answer # Idle /\ answer.op = "loaded"

\* The vertex lists of the edges the text declares
TextEdges ==
    [i \in 1..answer.text.num_edges |->
        IF i <= Len(answer.text.lines) /\ answer.text.lines[i] # <<>>
        THEN Tail(answer.text.lines[i])
        ELSE <<>>]

LoadFailed == ~answer.is_ok /\ inst = Idle

\* C14: loading fails and constructs no instance whenever some edge has no
\* vertices or some vertex index is not below the declared vertex count.
C14_EmptyOrOutOfRangeRejected ==
    (Loaded /\ \E i \in DOMAIN TextEdges :
                  \/ TextEdges[i] = <<>>
                  \/ \E k \in DOMAIN TextEdges[i] : TextEdges[i][k] >= answer.text.num_nodes)
        => LoadFailed

\* The text "2 1\n0\n" has been rejected.
C14_Witness ==
    /\ Loaded
    /\ answer.text.num_nodes = 2
    /\ answer.text.num_edges = 1
    /\ answer.text.lines = << <<0>> >>
    /\ LoadFailed

StrictlyAscending(is) == \A k \in 1..(Len(is) - 1) : is[k] < is[k + 1]

\* C15: loading fails and constructs no instance when the vertex list of an
\* edge is not strictly ascending, or when the degree at the start of a text
\* edge line differs from the number of vertex indices that follow.
C15_UnsortedOrMiscountedRejected ==
    (Loaded /\ \E i \in DOMAIN TextEdges :
                  \/ ~StrictlyAscending(TextEdges[i])
                  \/ /\ i <= Len(answer.text.lines)
                     /\ answer.text.lines[i] # <<>>
                     /\ answer.text.lines[i][1] # Len(TextEdges[i]))
        => LoadFailed

\* node(v) and edge(e) list strictly ascending indices, and the size their
\* iterators report is the number of items they yield
AscendingIncidences(I) ==
    /\ \A v \in DOMAIN I.node_incidences :
          /\ StrictlyAscending(node(I, v))
          /\ SkipVec_len(I.node_incidences[v]) = Len(node(I, v))
    /\ \A e \in DOMAIN I.edge_incidences :
          /\ StrictlyAscending(edge(I, e))
          /\ SkipVec_len(I.edge_incidences[e]) = Len(edge(I, e))

\* C16: in every reachable state of an instance, node(v) yields edge indices
\* in strictly ascending order and edge(e) yields vertex indices in strictly
\* ascending order, and each iterator's exact size is the number of items it
\* yields.
C16_IncidencesAscending == inst # Idle => AscendingIncidences(inst)

(***************************************************************************)
(* The batch returned by reduce (reductions.rs)                            *)
(***************************************************************************)
\* reduce has returned to solve_recursive with a result and its batch
ReduceReturned == Running /\ Frame.fn = "solve_recursive" /\ Frame.pc = "match"

\* The instance and partial_hs after batch.restore on the state reduce returned in
BatchRestored == Reduction_restore(Frame.reduced_items, inst, solver.partial_hs)

\* The batch lists the applied items in application order: applying them in
\* that order to the state reduce was called with gives the state it returned in.
BatchListsApplied ==
    LET st == FoldSeq(ReducedItem_apply, Frame.called_with, Frame.reduced_items)
    IN /\ Unordered(st.instance) = Unordered(inst)
       /\ st.partial_hs = solver.partial_hs

SameAsCalled(called_with, I, partial_hs) ==
    /\ AliveNodes(I) = AliveNodes(called_with.instance)
    /\ AliveEdges(I) = AliveEdges(called_with.instance)
    /\ I.node_incidences = called_with.instance.node_incidences
    /\ I.edge_incidences = called_with.instance.edge_incidences
    /\ partial_hs = called_with.partial_hs

\* The step with which the call on top of the stack returns
CallReturns == Running /\ Len(solver'.stack) < Len(solver.stack)

MaxDegreeAnswered == answer # Idle /\ answer.op = "max_degree"

\* The maximum degree of an alive vertex, 0 without alive vertices
MaxAliveDegree(I) == Max({0} \cup {Len(node(I, v)) : v \in AliveNodes(I)})

\* The least q with q * d >= n
RoundedUp(n, d) == CHOOSE q \in 0..n : q * d >= n /\ (q = 0 \/ (q - 1) * d < n)

\* C19: the max-degree bound is the number of alive edges divided by the
\* maximum degree of an alive vertex, rounded up, and it is 0 when the
\* instance has no alive edge.
C19_MaxDegreeBoundIsRoundedQuotient ==
    MaxDegreeAnswered =>
        LET I == answer.instance
            alive_edges == Cardinality(AliveEdges(I))
        IN IF alive_edges = 0
           THEN answer.bound = Some(0)
           ELSE MaxAliveDegree(I) > 0 =>
                    answer.bound = Some(RoundedUp(alive_edges, MaxAliveDegree(I)))

(***************************************************************************)
(* Stored values of a SkipVec (skipvec.rs)                                 *)
(***************************************************************************)
MaxValue == 1
Values == 0..MaxValue

\* Index::index
SkipVec_index(s, index) == s.entries[index].value

\* Mutant: a deleted slot cannot be written.
SkipVec_index_mut_of_alive(s, index, value) ==
    IF s.entries[index].deleted THEN s
    ELSE [s EXCEPT !.entries[index].value = value]

\* IndexMut::index_mut, followed by the write through the reference
SkipVec_index_mut(s, index, value) == [s EXCEPT !.entries[index].value = value]

\* A SkipVec is built from a sequence of values; answer keeps the values it
\* was built from and the value last stored in each slot.
InitIndex ==
    /\ \E n \in 0..MaxSlots : \E vals \in [1..n -> Values] :
          /\ sv = from_entry_vec(vals)
          /\ answer = [op |-> "index", constructed |-> vals,
                       stored |-> [i \in 0..(n - 1) |-> vals[i + 1]]]
    /\ svStack = <<>>
    /\ InstIdle
    /\ trie = Idle
    /\ inserted = <<>>
    /\ SolverIdle

SvIndexMut(i, value) ==
    /\ sv' = SkipVec_index_mut(sv, i, value)
    /\ answer' = [answer EXCEPT !.stored[i] = value]
    /\ UNCHANGED <<svStack, inst, inst0, ops, trie, inserted, solver>>

NextIndex ==
    \/ \E i \in DOMAIN sv.entries : SvDelete(i)
    \/ SvRestore
    \/ \E i \in DOMAIN sv.entries, value \in Values : SvIndexMut(i, value)

SpecIndex == InitIndex /\ [][NextIndex]_vars

\* Indexing a slot gives the value last stored in it
IndexGivesStored == \A i \in DOMAIN sv.entries : SkipVec_index(sv, i) = answer.stored[i]

\* The step is delete(i) or restore(i)
DeleteOrRestoreOf(i) == svStack' = Append(svStack, i) \/ svStack = Append(svStack', i)

\* delete(i) and restore(i) leave every value and the links of slot i alone
KeepsValuesAndOwnLinks ==
    \A i \in DOMAIN sv.entries :
        DeleteOrRestoreOf(i) =>
            /\ \A j \in DOMAIN sv.entries : sv'.entries[j].value = sv.entries[j].value
            /\ sv'.entries[i].prev = sv.entries[i].prev
            /\ sv'.entries[i].next = sv.entries[i].next

\* C20: delete(i) and restore(i) change no stored value and leave the prev and
\* next fields of slot i itself as they are, and indexing a slot gives the
\* value it was built with or that was last written through index_mut,
\* whether the slot is alive or deleted.
C20_ValuesAndOwnLinksKept == []IndexGivesStored /\ [][KeepsValuesAndOwnLinks]_vars

\* A slot between two others was deleted, written while deleted with a value
\* other than the one it was built with, and another slot was deleted after it.
C20_Witness ==
    /\ Len(svStack) >= 2
    /\ LET i == svStack[1]
       IN /\ sv.entries[i].prev # INVALID
          /\ sv.entries[i].next # INVALID
          /\ answer.stored[i] # answer.constructed[i + 1]
          /\ SkipVec_index(sv, i) = answer.stored[i]

(***************************************************************************)
(* ContiguousIdxVec under delete and restore (cont_idx_vec.rs)             *)
(***************************************************************************)
\* sv holds the ContiguousIdxVec, svStack the ids deleted and not yet restored
InitCiv ==
    /\ \E n \in 0..MaxSlots : sv = Civ_from_iter(n)
    /\ svStack = <<>>
    /\ InstIdle
    /\ TrieIdle
    /\ SolverIdle

CivDelete(id) ==
    /\ ~Civ_is_deleted(sv, id)
    /\ sv' = Civ_delete(sv, id)
    /\ svStack' = Append(svStack, id)
    /\ UNCHANGED outsideSkip

CivRestore ==
    /\ svStack # <<>>
    /\ sv' = Civ_restore(sv, Top(svStack))
    /\ svStack' = Pop(svStack)
    /\ UNCHANGED outsideSkip

NextCiv ==
    \/ \E id \in DOMAIN sv.indices : CivDelete(id)
    \/ CivRestore

SpecCiv == InitCiv /\ [][NextCiv]_vars

\* C21: data and the position table are inverse permutations of each other,
\* is_deleted(id) holds exactly for the ids deleted and not yet restored, and
\* the live prefix data[0..len] holds exactly the other ids.
C21_InversePermutations ==
    LET ids == DOMAIN sv.indices
    IN /\ DOMAIN sv.data = ids
       /\ \A id \in ids : sv.indices[id] \in ids /\ sv.data[sv.indices[id]] = id
       /\ \A pos \in ids : sv.data[pos] \in ids /\ sv.indices[sv.data[pos]] = pos
       /\ \A id \in ids : Civ_is_deleted(sv, id) <=> id \in SeqToSet(svStack)
       /\ Len(Civ_deref(sv)) = Cardinality(ids \ SeqToSet(svStack))
       /\ SeqToSet(Civ_deref(sv)) = ids \ SeqToSet(svStack)

\* Two ids are deleted and an alive id has left the position it was built at.
C21_Witness ==
    /\ Len(svStack) >= 2
    /\ \E id \in DOMAIN sv.indices : ~Civ_is_deleted(sv, id) /\ sv.indices[id] # id

(***************************************************************************)
(* Solved states of the search (reductions.rs, solve.rs)                   *)
(***************************************************************************)
\* The set hits every edge of the loaded instance
HitsLoadedEdges(H) ==
    \A e \in DOMAIN inst0.edge_incidences : EdgeNodes(inst0, e) \cap H # {}

CalcSumOverPackingBound(enable_local_search) ==
    /\ answer = Idle
    /\ LET packing == PackingBound_new(inst, [enable_local_search |-> enable_local_search])
       IN answer' = [op |-> "sum_over_packing", instance |-> inst,
                     local_search |-> enable_local_search,
                     packing |-> packing,
                     bound |-> calc_sum_over_packing_bound(packing, inst)]
    /\ UNCHANGED outsideAnswer

CalcEfficiencyBound ==
    /\ answer = Idle
    /\ LET efficiency == calc_efficiency_bound(inst)
       IN answer' = [op |-> "efficiency", instance |-> inst,
                     bound |-> efficiency.bound,
                     discard_bounds |-> efficiency.discard_bounds,
                     rounded |-> EfficiencyBound_round(inst, efficiency.bound)]
    /\ UNCHANGED outsideAnswer

DiscardBoundsAnswer(I, enable_local_search, packing, scan) ==
    [op |-> "discard_bounds", instance |-> I,
     local_search |-> enable_local_search,
     packing |-> packing,
     bounds |-> calc_discard_bounds_yielded(scan),
     marks |-> IF scan = Panic THEN <<>> ELSE scan.value.marks]

DiscardBoundsOf(I, enable_local_search, packing) ==
    DiscardBoundsAnswer(I, enable_local_search, packing,
                        calc_discard_bounds_scan(packing, I))

CalcDiscardBounds(enable_local_search) ==
    /\ answer = Idle
    /\ answer' = DiscardBoundsOf(inst, enable_local_search,
                     PackingBound_new(inst, [enable_local_search |-> enable_local_search]))
    /\ UNCHANGED outsideAnswer

MaxEstimateOps == 1

\* A bound is computed once, on the instance reached.
NextEstimate ==
    \/ answer = Idle /\ Len(ops) < MaxEstimateOps /\ \E v \in DOMAIN inst.node_incidences : DeleteNode(v)
    \/ answer = Idle /\ Len(ops) < MaxEstimateOps /\ \E e \in DOMAIN inst.edge_incidences : DeleteEdge(e)
    \/ \E enable_local_search \in BOOLEAN : CalcSumOverPackingBound(enable_local_search)
    \/ CalcEfficiencyBound
    \/ \E enable_local_search \in BOOLEAN : CalcDiscardBounds(enable_local_search)

SpecEstimate == InitBound /\ [][NextEstimate]_vars

SumOverPackingAnswered ==
    /\ answer # Idle
    /\ answer.op = "sum_over_packing"
    /\ EveryEdgeHasNode(answer.instance)

\* C23: on an instance whose alive edges all have an alive vertex, with the
\* packing of PackingBound::new (local search enabled or not),
\* calc_sum_over_packing_bound subtracts from no adjusted degree that is zero
\* and returns a number that is at least the packing size and at most the
\* minimum number of alive vertices that hit all alive edges.
C23_SumOverPackingBetweenPackingAndOptimum ==
    SumOverPackingAnswered =>
        /\ answer.bound # Panic
        /\ answer.bound.value >= Len(answer.packing)
        /\ answer.bound.value <= MinimumHittingSetSize(answer.instance)

\* The bound was computed on a packing of an instance with three alive edges
\* and exceeds the packing size.
C23_Witness ==
    /\ SumOverPackingAnswered
    /\ Cardinality(AliveEdges(answer.instance)) >= 3
    /\ answer.packing # <<>>
    /\ answer.bound # Panic
    /\ answer.bound.value > Len(answer.packing)

(***************************************************************************)
(* The efficiency bound (lower_bound.rs)                                   *)
(***************************************************************************)
EfficiencyAnswered == answer # Idle /\ answer.op = "efficiency"

F64_same(a, b) == (a.inf /\ b.inf) \/ (~a.inf /\ ~b.inf /\ a.num = b.num)

\* The alive edges whose only alive vertex is v
OnlyVertexOf(I, v) == {e \in SeqToSet(edges(I)) : edge(I, e) = <<v>>}

\* C25: for every alive vertex v, the discard bound that calc_efficiency_bound
\* returns for v is, as an exact number, the unrounded efficiency bound of the
\* instance after delete_node(v); when v is the only vertex of an alive edge
\* the discard bound is infinite, and the costly-discard rule takes it as
\* meeting every breakpoint.
C25_DiscardBoundIsBoundAfterDelete ==
    EfficiencyAnswered =>
        \A v \in SeqToSet(nodes(answer.instance)) :
            /\ F64_same(answer.discard_bounds[v],
                        calc_efficiency_bound(delete_node(answer.instance, v)).bound)
            /\ OnlyVertexOf(answer.instance, v) # {} =>
                   /\ answer.discard_bounds[v].inf
                   /\ \A lower_bound_breakpoint \in 0..(MaxNodes + 1) :
                          ForcedNode(v) \in SeqToSet(find_costly_discards_using_efficiency_bound(
                              answer.instance, lower_bound_breakpoint, answer.discard_bounds))

\* One vertex has a finite discard bound above the bound of the instance,
\* another is the only vertex of an alive edge.
C25_Witness ==
    /\ EfficiencyAnswered
    /\ ~answer.bound.inf
    /\ \E v \in SeqToSet(nodes(answer.instance)) :
           /\ ~answer.discard_bounds[v].inf
           /\ answer.discard_bounds[v].num > answer.bound.num
    /\ \E v \in SeqToSet(nodes(answer.instance)) : OnlyVertexOf(answer.instance, v) # {}

(***************************************************************************)
(* The packing of PackingBound::new (lower_bound.rs)                       *)
(***************************************************************************)
PackingAnswered == answer # Idle /\ answer.op = "packing"

\* The edges are alive, no two of them share a vertex, and every other alive
\* edge shares a vertex with one of them.
MaximalPacking(I, packing) ==
    /\ SeqToSet(packing) \subseteq AliveEdges(I)
    /\ \A i, j \in 1..Len(packing) :
           i # j => /\ packing[i] # packing[j]
                    /\ EdgeNodes(I, packing[i]) \cap EdgeNodes(I, packing[j]) = {}
    /\ \A e \in AliveEdges(I) \ SeqToSet(packing) :
           \E f \in SeqToSet(packing) : EdgeNodes(I, e) \cap EdgeNodes(I, f) # {}

\* C26: the packing that PackingBound::new returns, with local search enabled
\* or not, consists of alive edges that are pairwise vertex-disjoint, and no
\* alive edge outside it is disjoint from all of its edges.
C26_PackingIsMaximalDisjoint ==
    PackingAnswered => MaximalPacking(answer.instance, answer.packing)

\* The local search has swapped one packed edge for two.
C26_Witness ==
    /\ PackingAnswered
    /\ answer.local_search
    /\ Len(answer.packing) >= 2
    /\ Len(answer.packing)
           > Len(PackingBound_new(answer.instance, [enable_local_search |-> FALSE]))
    /\ AliveEdges(answer.instance) \ SeqToSet(answer.packing) # {}

(***************************************************************************)
(* The discard bounds of the packing (lower_bound.rs)                      *)
(***************************************************************************)
DiscardBoundsAnswered ==
    /\ answer # Idle
    /\ answer.op = "discard_bounds"
    /\ answer.bounds # Panic

\* The vertices of the packed edges
PackedNodes(I, packing) == UNION {EdgeNodes(I, e) : e \in SeqToSet(packing)}

\* The alive edges outside the packing whose only packed vertex is v
BlockedOnlyBy(I, packing, v) ==
    {e \in AliveEdges(I) \ SeqToSet(packing) :
        EdgeNodes(I, e) \cap PackedNodes(I, packing) = {v}}

\* Sets of edges blocked only by v that share no vertex but v
DisjointBlockedSets(I, packing, v) ==
    {S \in SUBSET BlockedOnlyBy(I, packing, v) :
        \A e, f \in S : e # f => EdgeNodes(I, e) \cap EdgeNodes(I, f) = {v}}

\* C27: for every pair (v, b) that calc_discard_bounds yields, b is not above
\* the minimum number of vertices that hit all alive edges of the instance
\* with v deleted; after each vertex the marks are those of the packed edges
\* alone; and b is the size of the packing plus the size of a set of edges
\* blocked only by v that are disjoint apart from v.
C27_DiscardBoundsAtMostOptimumWithout ==
    DiscardBoundsAnswered =>
        /\ \A i \in 1..Len(answer.bounds.value) :
               LET v == answer.bounds.value[i][1]
                   b == answer.bounds.value[i][2]
                   without == delete_node(answer.instance, v)
               IN /\ v \in AliveNodes(answer.instance)
                  /\ HittingSets(without) # {} => b <= MinimumHittingSetSize(without)
                  /\ \E S \in DisjointBlockedSets(answer.instance, answer.packing, v) :
                         b = Len(answer.packing) + Cardinality(S)
        /\ \A k \in 1..Len(answer.marks) :
               answer.marks[k] = PackedNodes(answer.instance, answer.packing)

\* Two vertices get a bound; the second keeps an edge that holds a vertex
\* marked, and reset, while the first was processed.
C27_Witness ==
    /\ DiscardBoundsAnswered
    /\ Len(answer.bounds.value) >= 2
    /\ \A i \in 1..Len(answer.bounds.value) :
           HittingSets(delete_node(answer.instance, answer.bounds.value[i][1])) # {}
    /\ \E e \in BlockedOnlyBy(answer.instance, answer.packing, answer.bounds.value[1][1]) :
       \E f \in BlockedOnlyBy(answer.instance, answer.packing, answer.bounds.value[2][1]) :
           EdgeNodes(answer.instance, e) \cap EdgeNodes(answer.instance, f) # {}

(***************************************************************************)
(* delete_incident_edges and restore_incident_edges (instance.rs)          *)
(***************************************************************************)
\* The step is delete_incident_edges(v)
IncidentEdgesDeleted(v) == ops' = Append(ops, <<"incident", v>>)

\* The alive edges that contain v in the loaded instance
AliveEdgesWith(I, v) == {e \in AliveEdges(I) : v \in EdgeNodes(inst0, e)}

\* C28 as stated: called on a deleted vertex v none of whose edges has been
\* deleted since, delete_incident_edges(v) deletes exactly the alive edges that
\* contain v and leaves the incidence list of v as it was, and
\* restore_incident_edges(v) then gives back the instance exactly as it was
\* before the call.
C28_IncidentEdgesRestoredExactly ==
    [][\A v \in DOMAIN inst.node_incidences :
           IncidentEdgesDeleted(v) =>
               /\ AliveEdges(inst') = AliveEdges(inst) \ AliveEdgesWith(inst, v)
               /\ inst'.node_incidences[v] = inst.node_incidences[v]
               /\ restore_incident_edges(inst', v) = inst]_vars

\* C28 amended: called on a deleted vertex v none of whose edges has been
\* deleted since, delete_incident_edges(v) deletes exactly the alive edges that
\* contain v and leaves the incidence list of v as it was, and
\* restore_incident_edges(v) then gives back the alive vertex and edge sets
\* and every incidence list as they were before the call; the order in which
\* edges() lists the alive edges may differ.
C28_IncidentEdgesRestoredUpToAliveOrder ==
    [][\A v \in DOMAIN inst.node_incidences :
           IncidentEdgesDeleted(v) =>
               /\ AliveEdges(inst') = AliveEdges(inst) \ AliveEdgesWith(inst, v)
               /\ inst'.node_incidences[v] = inst.node_incidences[v]
               /\ Unordered(restore_incident_edges(inst', v)) = Unordered(inst)
               /\ nodes(restore_incident_edges(inst', v)) = nodes(inst)]_vars

\* delete_incident_edges(v) has run right after delete_node(v), has deleted
\* two edges and has left one alive, and restore_incident_edges(v) leaves
\* edges() in another order than delete_node(v) did.
C28_Witness ==
    /\ inst # Idle
    /\ Len(ops) = 2
    /\ Top(ops)[1] = "incident"
    /\ ops[1] = <<"node", Top(ops)[2]>>
    /\ Cardinality({e \in DOMAIN inst.edge_incidences :
                       Top(ops)[2] \in EdgeNodes(inst0, e)}) >= 2
    /\ AliveEdges(inst) # {}
    /\ Unordered(restore_incident_edges(inst, Top(ops)[2]))
           = Unordered(delete_node(inst0, Top(ops)[2]))
    /\ restore_incident_edges(inst, Top(ops)[2]) # delete_node(inst0, Top(ops)[2])

(***************************************************************************)
(* node, edge, node_degree and edge_size (instance.rs)                     *)
(***************************************************************************)
\* C29: in every state reached by delete and restore operations in LIFO
\* order, node(v) of an alive vertex v yields, each once, the alive edges that
\* contain v in the loaded instance, edge(e) of an alive edge e yields, each
\* once, the alive vertices of e in the loaded instance, and node_degree and
\* edge_size are the numbers of these.
C29_IncidencesAreAliveCounterparts ==
    inst # Idle =>
        /\ \A v \in AliveNodes(inst) :
               /\ SeqToSet(node(inst, v))
                      = {e \in AliveEdges(inst) : v \in EdgeNodes(inst0, e)}
               /\ Len(node(inst, v)) = Cardinality(SeqToSet(node(inst, v)))
               /\ node_degree(inst, v) = Len(node(inst, v))
        /\ \A e \in AliveEdges(inst) :
               /\ SeqToSet(edge(inst, e))
                      = {v \in AliveNodes(inst) : v \in EdgeNodes(inst0, e)}
               /\ Len(edge(inst, e)) = Cardinality(SeqToSet(edge(inst, e)))
               /\ edge_size(inst, e) = Len(edge(inst, e))

\* After a vertex and an edge were deleted, an alive vertex has lost an edge
\* and kept one, and an alive edge has lost a vertex and kept one.
C29_Witness ==
    /\ inst # Idle
    /\ \E i, j \in 1..Len(ops) : ops[i][1] = "node" /\ ops[j][1] = "edge"
    /\ \E v \in AliveNodes(inst) :
           /\ node_degree(inst, v) >= 1
           /\ node_degree(inst, v) < node_degree(inst0, v)
    /\ \E e \in AliveEdges(inst) :
           /\ edge_size(inst, e) >= 1
           /\ edge_size(inst, e) < edge_size(inst0, e)

(***************************************************************************)
(* No alive edge is empty while the search evaluates the instance          *)
(***************************************************************************)
\* reduce is about to recalculate the greedy set or to run a pass of its
\* loop, or has finished and a branching vertex is chosen
Evaluating ==
    /\ Running
    /\ Frame.fn = "solve_recursive"
    /\ Frame.pc \in {"reduce", "loop"} \/ Frame.result = "Finished"

\* The pass that is about to run gets as far as the lower bounds
BoundsComputed ==
    /\ Running
    /\ Frame.fn = "solve_recursive" /\ Frame.pc = "loop"
    /\ Len(solver.partial_hs) < Len(solver.minimum_hs)
    /\ num_edges(inst) # 0

\* The instances on which the last pass of reduce computed a packing with a
\* vertex tentatively deleted
TentativelyDeleted ==
    IF solver.stack # <<>> /\ Frame.fn = "solve_recursive" THEN Frame.tentative ELSE <<>>

Builds == [debug_skipvec : BOOLEAN, debug_assertions : BOOLEAN]

\* prev, next of every slot, first and last
Chain(s) ==
    [links |-> [i \in DOMAIN s.entries |-> <<s.entries[i].prev, s.entries[i].next>>],
     first |-> s.first, last |-> s.last]

\* check_invariants: some debug_assert_eq! of it fails.  fuel bounds the walk.
RECURSIVE WalkFails(_, _, _)
WalkFails(s, idx, fuel) ==
    IF idx = INVALID \/ fuel = 0 THEN FALSE
    ELSE LET next == s.entries[idx].next
         IN \/ next # INVALID /\ s.entries[next].prev # idx
            \/ WalkFails(s, next, fuel - 1)

check_invariants_fails(s) ==
    \/ WalkFails(s, s.first, Len(SetToAscSeq(DOMAIN s.entries)) + 1)
    \/ s.first # INVALID /\ s.entries[s.first].prev # INVALID
    \/ s.last # INVALID /\ s.entries[s.last].next # INVALID

Went(s) == [panicked |-> FALSE, s |-> s]
Panicked(s) == [panicked |-> TRUE, s |-> s]

\* delete, after the tracking block: s1 has the deleted flag set when tracked.
\* A len below 0 stands for the wrapped u32 (2^32 + len).
SkipVec_delete_chain(s1, index, build) ==
    LET prev == s1.entries[index].prev
        next == s1.entries[index].next
        s2 == [s1 EXCEPT !.len = @ - 1]
        s3 == IF prev # INVALID THEN [s2 EXCEPT !.entries[prev].next = next]
              ELSE [s2 EXCEPT !.first = next]
        s4 == IF next # INVALID THEN [s3 EXCEPT !.entries[next].prev = prev]
              ELSE [s3 EXCEPT !.last = prev]
        s5 == IF build.debug_skipvec THEN [s4 EXCEPT !.deletions = Append(@, index)] ELSE s4
    IN IF ~build.debug_assertions THEN Went(s5)
       ELSE IF s1.len = 0 THEN Panicked(s1)
       ELSE IF (IF prev # INVALID THEN s2.entries[prev].next # index ELSE s2.first # index)
            THEN Panicked(s2)
       ELSE IF (IF next # INVALID THEN s3.entries[next].prev # index ELSE s3.last # index)
            THEN Panicked(s3)
       ELSE IF build.debug_skipvec /\ check_invariants_fails(s5) THEN Panicked(s5)
       ELSE Went(s5)

\* delete in the given build: the SkipVec after the call, or at the panic
SkipVec_delete_built(s, index, build) ==
    IF build.debug_skipvec /\ build.debug_assertions /\ s.entries[index].deleted
    THEN Panicked(s)
    ELSE SkipVec_delete_chain(
             IF build.debug_skipvec THEN [s EXCEPT !.entries[index].deleted = TRUE] ELSE s,
             index, build)

\* restore, after the tracking block
SkipVec_restore_chain(s1, index, build) ==
    LET prev == s1.entries[index].prev
        next == s1.entries[index].next
        s2 == [s1 EXCEPT !.len = @ + 1]
        s3 == IF prev # INVALID THEN [s2 EXCEPT !.entries[prev].next = index]
              ELSE [s2 EXCEPT !.first = index]
        s4 == IF next # INVALID THEN [s3 EXCEPT !.entries[next].prev = index]
              ELSE [s3 EXCEPT !.last = index]
    IN IF ~build.debug_assertions THEN Went(s4)
       ELSE IF (IF prev # INVALID THEN s2.entries[prev].next # next ELSE s2.first # next)
            THEN Panicked(s2)
       ELSE IF (IF next # INVALID THEN s3.entries[next].prev # prev ELSE s3.last # prev)
            THEN Panicked(s3)
       ELSE IF build.debug_skipvec /\ check_invariants_fails(s4) THEN Panicked(s4)
       ELSE Went(s4)

\* Mutant: the popped index is not compared with the restored one.
SkipVec_restore_built_unchecked(s, index, build) ==
    IF ~build.debug_skipvec THEN SkipVec_restore_chain(s, index, build)
    ELSE LET popped == IF s.deletions = <<>> THEN None ELSE Some(Top(s.deletions))
             s1 == [s EXCEPT !.deletions = IF @ = <<>> THEN @ ELSE Pop(@)]
         IN IF build.debug_assertions /\ ~s1.entries[index].deleted THEN Panicked(s1)
            ELSE SkipVec_restore_chain([s1 EXCEPT !.entries[index].deleted = FALSE],
                                       index, build)

\* restore in the given build: the SkipVec after the call, or at the panic
SkipVec_restore_built(s, index, build) ==
    IF ~build.debug_skipvec THEN SkipVec_restore_chain(s, index, build)
    ELSE LET popped == IF s.deletions = <<>> THEN None ELSE Some(Top(s.deletions))
             s1 == [s EXCEPT !.deletions = IF @ = <<>> THEN @ ELSE Pop(@)]
         IN IF build.debug_assertions /\ popped # Some(index) THEN Panicked(s1)
            ELSE IF build.debug_assertions /\ ~s1.entries[index].deleted THEN Panicked(s1)
            ELSE SkipVec_restore_chain([s1 EXCEPT !.entries[index].deleted = FALSE],
                                       index, build)

MaxTrackedSlots == 4

\* answer holds the build, the call that broke the LIFO discipline (if any),
\* whether it panicked, and the chain before it
InitTracking ==
    /\ \E n \in 1..MaxTrackedSlots : sv = from_entry_vec([i \in 1..n |-> i - 1])
    /\ svStack = <<>>
    /\ \E build \in Builds :
           answer = [op |-> "tracking", build |-> build, misuse |-> "none",
                     panicked |-> FALSE, before |-> <<>>]
    /\ InstIdle
    /\ trie = Idle /\ inserted = <<>>
    /\ SolverIdle

outsideTracking == <<inst, inst0, ops, trie, inserted, solver>>

TrackingGoesOn == answer.misuse = "none" /\ ~answer.panicked

\* delete(i), of an alive slot or of a slot that is already deleted
TrackedDelete(i) ==
    /\ TrackingGoesOn
    /\ LET done == SkipVec_delete_built(sv, i, answer.build)
           again == i \in SeqToSet(svStack)
       IN /\ sv' = done.s
          /\ svStack' = IF again \/ done.panicked THEN svStack ELSE Append(svStack, i)
          /\ answer' = [answer EXCEPT !.misuse = IF again THEN "delete" ELSE @,
                                      !.panicked = done.panicked,
                                      !.before = IF again THEN Chain(sv) ELSE @]
    /\ UNCHANGED outsideTracking

\* restore(i), of the slot deleted last or of any other slot
TrackedRestore(i) ==
    /\ TrackingGoesOn
    /\ LET done == SkipVec_restore_built(sv, i, answer.build)
           out_of_order == svStack = <<>> \/ Top(svStack) # i
       IN /\ sv' = done.s
          /\ svStack' = IF out_of_order \/ done.panicked THEN svStack ELSE Pop(svStack)
          /\ answer' = [answer EXCEPT !.misuse = IF out_of_order THEN "restore" ELSE @,
                                      !.panicked = done.panicked,
                                      !.before = IF out_of_order THEN Chain(sv) ELSE @]
    /\ UNCHANGED outsideTracking

NextTracking ==
    \/ \E i \in DOMAIN sv.entries : TrackedDelete(i)
    \/ \E i \in DOMAIN sv.entries : TrackedRestore(i)

SpecTracking == InitTracking /\ [][NextTracking]_vars

Misused == answer.misuse # "none"

\* C36 as stated: with the deletion tracking compiled in, a delete of a
\* deleted slot and a restore of a slot that is not the one deleted last fail
\* an assertion and leave the chain as it was.
C36_TrackingStopsMisuse ==
    (Misused /\ answer.build.debug_skipvec) =>
        /\ answer.panicked
        /\ Chain(sv) = answer.before

\* C36 amended: in a build with the deletion tracking and with debug
\* assertions, a delete of a deleted slot and a restore of a slot that is not
\* the one deleted last fail an assertion and leave the chain as it was; and
\* no call that keeps the LIFO discipline fails one.
C36_TrackingStopsMisuseInDebugBuild ==
    /\ (Misused /\ answer.build.debug_skipvec /\ answer.build.debug_assertions) =>
           /\ answer.panicked
           /\ Chain(sv) = answer.before
    /\ answer.panicked => Misused

\* With tracking and debug assertions, a slot that is deleted but not the one
\* deleted last was restored, while two slots were deleted, and the call panicked.
C36_Witness ==
    /\ answer.op = "tracking"
    /\ answer.build.debug_skipvec /\ answer.build.debug_assertions
    /\ answer.misuse = "restore"
    /\ answer.panicked
    /\ Len(svStack) >= 2
    /\ Top(svStack) \notin SeqToSet(sv.deletions)
    /\ Chain(sv) = answer.before

\* ---------------------------------------------------------------------------
\* The activity store: a segment tree of activities with lazy decay
\* (data_structures/segtree.rs, activity.rs)
\* ---------------------------------------------------------------------------

MaxActivityNodes == 3
MaxActivityOps == 4
MaxActivityDecays == 2
MaxBoost == 2
Tiebreaks == {0, 1}

\* An f32 activity x is held as the integer x * F32_one; every value the
\* bounded runs produce (sums of whole boosts, each times 0.99 at most
\* MaxActivityDecays times) is such an integer, so no rounding is modelled.
F32_one == 100 * 100
F32_mul(x, y) == (x * y) \div F32_one

ACTIVITY_DECAY_FACTOR == 99 * (F32_one \div 100)

\* |left - right| < ACTIVITY_EQ_EPSILON: values differ by 0.0001 or more, or not at all
choose(left, left_tiebreak, left_idx, right, right_tiebreak, right_idx) ==
    IF left_idx = INVALID THEN TRUE
    ELSE IF right_idx = INVALID THEN FALSE
    ELSE IF left = right THEN right_tiebreak > left_tiebreak
    ELSE left <= right

no_lazy == 0

\* apply(item, lazy, upper) on the item at data[at], whose lazy is lazy[at] if there is one
ActivitySegTreeOp_apply(tree, at, upper) ==
    [data |-> [tree.data EXCEPT ![at].activity = F32_mul(@, upper)],
     lazy |-> [i \in DOMAIN tree.lazy |->
                  IF i = at THEN F32_mul(tree.lazy[i], upper) ELSE tree.lazy[i]]]

ActivitySegTreeOp_combine(left, right) ==
    IF choose(left.activity, left.tiebreak, left.node_idx,
              right.activity, right.tiebreak, right.node_idx)
    THEN right ELSE left

SegTreeItem_default == [activity |-> 0, node_idx |-> 0, tiebreak |-> 0]

SegTree_len(tree) == Cardinality(DOMAIN tree.lazy)

SegTree_recalc_at(tree, index) ==
    [tree EXCEPT !.data[index] =
        ActivitySegTreeOp_combine(tree.data[2 * index], tree.data[2 * index + 1])]

RECURSIVE SegTree_recalc_up(_, _)
SegTree_recalc_up(tree, index) ==
    IF index > 1
    THEN SegTree_recalc_up(SegTree_recalc_at(tree, index \div 2), index \div 2)
    ELSE tree

\* 64 - leading_zeros(len)
RECURSIVE SegTree_height(_)
SegTree_height(len) == IF len = 0 THEN 0 ELSE 1 + SegTree_height(len \div 2)

\* one turn of the loop of push, for the ancestor idx
SegTree_push_at(tree, idx) ==
    LET upper == tree.lazy[idx]
        left == ActivitySegTreeOp_apply(tree, 2 * idx, upper)
        right == ActivitySegTreeOp_apply(left, 2 * idx + 1, upper)
    IN [right EXCEPT !.lazy[idx] = no_lazy]

RECURSIVE SegTree_push_from(_, _, _)
SegTree_push_from(tree, index, shift) ==
    IF shift = 0 THEN tree
    ELSE LET idx == index \div (2 ^ shift)
         IN SegTree_push_from(IF idx = 0 THEN tree ELSE SegTree_push_at(tree, idx),
                              index, shift - 1)

SegTree_push(tree, index) ==
    SegTree_push_from(tree, index, SegTree_height(SegTree_len(tree)))

\* The closure passed to change: op.add is added to the activity, and the
\* fields of op.set are assigned
Closure_call(op, item) ==
    [f \in DOMAIN item |->
        IF f \in DOMAIN op.set THEN op.set[f]
        ELSE IF f = "activity" THEN item.activity + op.add
        ELSE item[f]]

\* change_single(index, op)
SegTree_change_single(tree, index, op) ==
    LET at == index + SegTree_len(tree)
        pushed == SegTree_push(tree, at)
    IN SegTree_recalc_up([pushed EXCEPT !.data[at] = Closure_call(op, @)], at)

SegTree_root(tree) == tree.data[1]

SegTree_apply_to_all(tree, lazy) == ActivitySegTreeOp_apply(tree, 1, lazy)

RECURSIVE SegTree_recalc_down(_, _)
SegTree_recalc_down(tree, index) ==
    IF index >= 1
    THEN SegTree_recalc_down(SegTree_recalc_at(tree, index), index - 1)
    ELSE tree

SegTree_from_iter(items) ==
    LET len == Len(items)
    IN SegTree_recalc_down(
           [data |-> [i \in 0..(2 * len - 1) |->
                         IF i < len THEN SegTreeItem_default ELSE items[i - len + 1]],
            lazy |-> [i \in 0..(len - 1) |-> no_lazy]],
           len - 1)

\* no vertex of a new instance is deleted
Activities_new(n, tiebreaks) ==
    SegTree_from_iter([i \in 1..n |->
        [activity |-> 0, node_idx |-> i - 1, tiebreak |-> tiebreaks[i]]])

decay_all(tree) == SegTree_apply_to_all(tree, ACTIVITY_DECAY_FACTOR)

boost_activity(tree, node_idx, amount, new_tiebreak) ==
    SegTree_change_single(tree, node_idx,
                          [add |-> amount, set |-> [tiebreak |-> new_tiebreak]])

Activities_delete(tree, node_idx) ==
    SegTree_change_single(tree, node_idx, [add |-> 0, set |-> [node_idx |-> INVALID]])

Activities_restore(tree, node_idx) ==
    SegTree_change_single(tree, node_idx, [add |-> 0, set |-> [node_idx |-> node_idx]])

highest(tree) == SegTree_root(tree).node_idx

\* The activity of a node: what its item holds once the pending lazies of its
\* ancestors have been pushed down to it, as a boost of the node finds it
ActivityOf(tree, node_idx) ==
    LET at == node_idx + SegTree_len(tree)
    IN SegTree_push(tree, at).data[at].activity

\* answer holds the store, and for every node the sum of its boosts, each
\* decayed once per later decay_all (owed), the deleted nodes, the last call
InitActivity ==
    /\ \E n \in 1..MaxActivityNodes : \E tiebreaks \in [1..n -> Tiebreaks] :
           answer = [op |-> "activities", tree |-> Activities_new(n, tiebreaks),
                     owed |-> [v \in 0..(n - 1) |-> 0], deleted |-> {},
                     steps |-> 0, decays |-> 0, last |-> "new", node |-> INVALID]
    /\ SkipIdle
    /\ InstIdle
    /\ trie = Idle /\ inserted = <<>>
    /\ SolverIdle

outsideActivity == <<sv, svStack, inst, inst0, ops, trie, inserted, solver>>

ActivityNodes == DOMAIN answer.owed

BoostActivity(v, amount, new_tiebreak) ==
    /\ answer.steps < MaxActivityOps
    /\ answer' = [answer EXCEPT
                     !.tree = boost_activity(@, v, amount * F32_one, new_tiebreak),
                     !.owed[v] = @ + amount * F32_one,
                     !.steps = @ + 1, !.last = "boost", !.node = v]
    /\ UNCHANGED outsideActivity

DecayAll ==
    /\ answer.steps < MaxActivityOps
    /\ answer.decays < MaxActivityDecays
    /\ answer' = [answer EXCEPT
                     !.tree = decay_all(@),
                     !.owed = [v \in ActivityNodes |->
                                  F32_mul(answer.owed[v], ACTIVITY_DECAY_FACTOR)],
                     !.steps = @ + 1, !.decays = @ + 1,
                     !.last = "decay", !.node = INVALID]
    /\ UNCHANGED outsideActivity

ActivityDelete(v) ==
    /\ answer.steps < MaxActivityOps
    /\ v \notin answer.deleted
    /\ answer' = [answer EXCEPT
                     !.tree = Activities_delete(@, v),
                     !.deleted = @ \cup {v},
                     !.steps = @ + 1, !.last = "delete", !.node = v]
    /\ UNCHANGED outsideActivity

ActivityRestore(v) ==
    /\ answer.steps < MaxActivityOps
    /\ v \in answer.deleted
    /\ answer' = [answer EXCEPT
                     !.tree = Activities_restore(@, v),
                     !.deleted = @ \ {v},
                     !.steps = @ + 1, !.last = "restore", !.node = v]
    /\ UNCHANGED outsideActivity

NextActivity ==
    \/ \E v \in ActivityNodes : \E amount \in 1..MaxBoost : \E t \in Tiebreaks :
           BoostActivity(v, amount, t)
    \/ DecayAll
    \/ \E v \in ActivityNodes : ActivityDelete(v)
    \/ \E v \in ActivityNodes : ActivityRestore(v)

SpecActivity == InitActivity /\ [][NextActivity]_vars

ActivityStore == answer # Idle /\ "op" \in DOMAIN answer /\ answer.op = "activities"

\* The activity as the item of the node stores it, lazies of ancestors left pending
StoredActivityOf(tree, node_idx) == tree.data[node_idx + SegTree_len(tree)].activity

\* C35: after any sequence of boosts, decays, deletes and restores, the
\* activity of every node (stored, or with the pending lazies pushed) is the
\* sum of the amounts boosted to it, each multiplied by the decay factor once
\* per decay_all that came after the boost
C35_ActivityIsDecayedSumOfBoosts ==
    ActivityStore =>
        \A v \in ActivityNodes :
            answer.owed[v] \in {StoredActivityOf(answer.tree, v), ActivityOf(answer.tree, v)}

(***************************************************************************)
(* SpecLocalSearch: improve_packing_by_local_search, one turn of its loop  *)
(* per step (lower_bound.rs)                                               *)
(***************************************************************************)
MaxLocalSearchOps == 1

\* Two copies of the six-vertex family: the local search swaps twice
TwoSwapsInput ==
    <<12, <<<<1, 2>>, <<7, 8>>, <<0, 1, 4>>, <<2, 3, 5>>, <<6, 7, 10>>, <<8, 9, 11>>>>>>

LocalSearchInputs == BoundInputs \cup {TwoSwapsInput}

InitLocalSearch ==
    /\ \E in \in LocalSearchInputs : inst = load(in[1], in[2]).instance
    /\ inst0 = inst
    /\ ops = <<>>
    /\ SkipIdle
    /\ TrieIdle
    /\ SolverIdle

\* improve_packing_by_local_search is entered with the packing of PackingBound::new
LocalSearchEnter ==
    /\ answer = Idle
    /\ LET packing == PackingBound_new(inst, [enable_local_search |-> FALSE])
       IN answer' = [op |-> "local_search", instance |-> inst, greedy |-> packing,
                     packing |-> packing,
                     remaining |-> SelectSeq(edges(inst),
                                      LAMBDA e : e \notin SeqToSet(packing)),
                     rounds |-> 0, returned |-> FALSE]
    /\ UNCHANGED outsideAnswer

LocalSearching == answer # Idle /\ answer.op = "local_search"

\* One turn of the loop: a swap is made, or the packing is returned
LocalSearchRound ==
    /\ LocalSearching
    /\ ~answer.returned
    /\ LET round == local_search_round(answer.instance, answer.packing, answer.remaining,
                        local_search_hit_by(answer.instance, answer.packing))
       IN answer' = IF round.found
                    THEN [answer EXCEPT !.packing = round.swapped.packing,
                                        !.remaining = round.swapped.remaining,
                                        !.rounds = @ + 1]
                    ELSE [answer EXCEPT !.returned = TRUE]
    /\ UNCHANGED outsideAnswer

NextLocalSearch ==
    \/ answer = Idle /\ Len(ops) < MaxLocalSearchOps /\ \E v \in DOMAIN inst.node_incidences : DeleteNode(v)
    \/ answer = Idle /\ Len(ops) < MaxLocalSearchOps /\ \E e \in DOMAIN inst.edge_incidences : DeleteEdge(e)
    \/ LocalSearchEnter
    \/ LocalSearchRound

SpecLocalSearch == InitLocalSearch /\ [][NextLocalSearch]_vars

\* LocalSearchRound is enabled exactly in these states
LocalSearchRuns == LocalSearching /\ ~answer.returned

\* A step of LocalSearchRound: no other action changes these fields
LocalSearchTurned ==
    LocalSearchRuns /\ (answer'.returned \/ answer'.rounds = answer.rounds + 1)

\* The loop of improve_packing_by_local_search runs on once entered: weak
\* fairness of LocalSearchRound, with the guard of the action for its ENABLED
SpecLocalSearchFair ==
    SpecLocalSearch /\ ([]<>~LocalSearchRuns \/ []<><<LocalSearchTurned>>_vars)

\* The steps return what the function returns
LocalSearchStepsAreTheLoop ==
    (LocalSearching /\ answer.returned) =>
        answer.packing = improve_packing_by_local_search(answer.instance, answer.greedy)

LocalSearchBounded ==
    LocalSearching =>
        /\ Len(answer.packing) <= Cardinality(AliveEdges(answer.instance))
        /\ Len(answer.packing) >= Len(answer.greedy)
        /\ Cardinality(SeqToSet(answer.packing)) = Len(answer.packing)

LocalSearchSwapGrows ==
    (LocalSearching /\ ~answer.returned /\ ~answer'.returned) =>
        /\ Cardinality(SeqToSet(answer.packing) \ SeqToSet(answer'.packing)) = 1
        /\ Cardinality(SeqToSet(answer'.packing) \ SeqToSet(answer.packing)) >= 2
        /\ Len(answer'.packing) > Len(answer.packing)

\* C38: improve_packing_by_local_search terminates; every turn of its loop
\* that does not return takes one edge out of the packing and puts at least
\* two in, so the packing grows with every turn; the packing never has more
\* edges than are alive, and never fewer than the greedy packing it began with
C38_LocalSearchTerminatesGrowing ==
    /\ []LocalSearchBounded
    /\ [][LocalSearchSwapGrows]_vars
    /\ (LocalSearching ~> (LocalSearching /\ answer.returned))

\* The local search has returned after two swaps
C38_Witness ==
    /\ LocalSearching
    /\ answer.returned
    /\ answer.rounds = 2
    /\ Len(answer.packing) = Len(answer.greedy) + 2

(***************************************************************************)
(* The batch of one pass of reduce (reductions.rs)                         *)
(***************************************************************************)
\* A step from inside the loop of reduce is one pass of it
InPass == Running /\ Frame.fn = "solve_recursive" /\ Frame.pc = "loop"

\* The items the pass has appended to reduced_items and applied
PassBatch ==
    SubSeq(Top(solver'.stack).reduced_items,
           Len(Frame.reduced_items) + 1, Len(Top(solver'.stack).reduced_items))

\* The counters of report.reductions that count items found, and the kind of
\* item the rule of each produces
RuleItemKind ==
    [forced_vertices_found |-> "ForcedNode",
     costly_discard_efficiency_vertices_found |-> "ForcedNode",
     costly_discard_packing_update_vertices_found |-> "ForcedNode",
     costly_discard_packing_from_scratch_steps_per_run |-> "ForcedNode",
     vertex_dominations_vertices_found |-> "RemovedNode",
     edge_dominations_edges_found |-> "RemovedEdge"]

\* The items are those of one rule
FromOneRule(items, found) ==
    \E rule \in DOMAIN RuleItemKind :
        /\ found \cap DOMAIN RuleItemKind = {rule}
        /\ \A k \in 1..Len(items) : items[k].kind = RuleItemKind[rule]

\* No vertex and no edge is named by two items
NoItemTwice(items) ==
    \A j, k \in 1..Len(items) :
        (j # k /\ (items[j].kind = "RemovedEdge") = (items[k].kind = "RemovedEdge"))
            => items[j].idx # items[k].idx

\* What apply deletes is alive when it deletes it
AppliedToAlive(I, item) ==
    CASE item.kind = "RemovedEdge" -> ~Civ_is_deleted(I.edges, item.idx)
      [] item.kind = "RemovedNode" -> ~Civ_is_deleted(I.nodes, item.idx)
      [] OTHER ->
             /\ ~Civ_is_deleted(I.nodes, item.idx)
             /\ \A e \in SeqToSet(node(delete_node(I, item.idx), item.idx)) :
                    ~Civ_is_deleted(I.edges, e)

\* Every item of the batch finds its vertex or edge alive in the instance the
\* items before it have left
BatchAppliedToAlive(I, items) ==
    \A k \in 1..Len(items) :
        AppliedToAlive(ApplyItems(I, SubSeq(items, 1, k - 1)), items[k])

PassQueuesOneRule ==
    InPass =>
        /\ PassBatch # <<>> => FromOneRule(PassBatch, Top(solver'.stack).found)
        /\ PassBatch = <<>> =>
               /\ Top(solver'.stack).pc = "match"
               /\ Top(solver'.stack).found \cap DOMAIN RuleItemKind = {}
        /\ NoItemTwice(PassBatch)
        /\ BatchAppliedToAlive(inst, PassBatch)
        /\ AliveNodes(inst') \subseteq AliveNodes(inst)
        /\ AliveEdges(inst') \subseteq AliveEdges(inst)

SolverStepped == Running /\ solver'.stack # solver.stack

\* The search runs on until solve returns: weak fairness of NextSolve, which
\* is enabled exactly while the search is running (see SearchCanStep), with
\* that guard for its ENABLED
SpecSolveFair == SpecSolve /\ ([]<>~Running \/ []<><<SolverStepped>>_vars)

\* Some action of NextSolve is enabled in every state of a running search
SearchCanStep ==
    Running =>
        \/ Frame.fn = "solve_recursive"
              /\ \/ Frame.pc \in {"reduce", "loop", "restore"}
                 \/ Frame.pc = "match" /\ Frame.result \in {"Solved", "Unsolvable", "Stop"}
                 \/ Frame.pc = "match" /\ Frame.result = "Finished" /\ AliveNodes(inst) # {}
        \/ Frame.fn = "branch_on" /\ Frame.pc \in {"call", "return"}

AliveItems(I) == Cardinality(AliveNodes(I)) + Cardinality(AliveEdges(I))

\* No call of reduce has made more passes than it was given vertices and edges, and one
PassesBounded ==
    solver # Idle =>
        \A d \in 1..Len(solver.stack) :
            solver.stack[d].fn = "solve_recursive" =>
                solver.stack[d].passes <= AliveItems(solver.stack[d].called_with.instance) + 1

\* A pass after which the loop goes on has applied an item, and every item
\* it applied has deleted a vertex or an edge that was alive
PassDeletes ==
    (InPass /\ Top(solver'.stack).pc = "loop") =>
        /\ PassBatch # <<>>
        /\ AliveItems(inst') + Len(PassBatch) <= AliveItems(inst)

NestingDepth ==
    Cardinality({d \in 1..Len(solver.stack) : solver.stack[d].fn = "solve_recursive"})

DepthBounded == solver # Idle => NestingDepth <= 2 * num_nodes_total(inst)

\* The step calls branch_on
Branches ==
    /\ Returned("Finished")
    /\ Len(solver'.stack) = Len(solver.stack) + 1
    /\ Top(solver'.stack).fn = "branch_on"

BranchesOnAlive ==
    Branches =>
        /\ Top(solver'.stack).node_idx \in AliveNodes(inst)
        /\ ~Civ_is_deleted(inst.nodes, Top(solver'.stack).node_idx)
        /\ Civ_is_deleted(inst'.nodes, Top(solver'.stack).node_idx)

\* The step returns from branch_on
BranchOnReturns ==
    /\ Running
    /\ Frame.fn = "branch_on"
    /\ Len(solver'.stack) < Len(solver.stack)

\* branch_on has called solve_recursive for both entries of takes, of which
\* one is the include branch and the other the exclude branch
BothBranchesExplored == Frame.i = 2 /\ Frame.takes[1] # Frame.takes[2]

\* The calls of solve_recursive a branch_on makes are those of takes, in order,
\* each made once
BranchCallsInOrder ==
    (Running /\ Frame.fn = "branch_on" /\ Len(solver'.stack) = Len(solver.stack) + 1) =>
        /\ Frame.pc = "call"
        /\ Top(solver'.stack).fn = "solve_recursive"
        /\ solver'.stack[Len(solver.stack)].i = Frame.i
        /\ solver'.stack[Len(solver.stack)].pc = "return"
        /\ Len(solver'.partial_hs) = Len(solver.partial_hs)
                                       + (IF Frame.takes[Frame.i] THEN 1 ELSE 0)

SearchReturns == <>(solver.status # "running")

OrderStopAt == 5

\* An instance on which the greedy approximation is two above the minimum
\* and the search finds hitting sets of different sizes below it
OrderInput ==
    <<8, << <<0, 2>>, <<0, 6>>, <<0, 7>>, <<1, 2, 7>>, <<1, 3>>, <<1, 5>>,
            <<3, 6>>, <<4>>, <<4, 5>>, <<4, 7>>, <<5, 6>> >> >>

OrderInputs == HardInputs \cup DeepInputs \cup {OrderInput}

OrderSettings ==
    [enable_local_search : {FALSE},
     enable_max_degree_bound : {FALSE},
     enable_sum_degree_bound : {FALSE},
     enable_efficiency_bound : {FALSE},
     enable_packing_bound : {FALSE},
     enable_sum_over_packing_bound : {FALSE},
     packing_from_scratch_limit : {0},
     greedy_mode : GreedyModes,
     stop_at : {0, OrderStopAt - 1, OrderStopAt}]

\* OrderInput is solved with the greedy approximation run once per call
OrderSettingsFor(in) ==
    IF in = OrderInput
    THEN {s \in OrderSettings : s.greedy_mode = "Once" /\ s.stop_at \in {0, OrderStopAt}}
    ELSE OrderSettings

\* pick_branching_node, branching-degree: the alive node of maximum degree,
\* the lowest of them
pick_branching_node(I) ==
    CHOOSE v \in AliveNodes(I) :
        \A u \in AliveNodes(I) :
            \/ node_degree(I, v) > node_degree(I, u)
            \/ node_degree(I, v) = node_degree(I, u) /\ v <= u

InitOrder ==
    /\ \E in \in OrderInputs :
         /\ inst = load(in[1], in[2]).instance
         /\ \E settings \in OrderSettingsFor(in) : solver = SolveState(settings, inst)
    /\ inst0 = inst
    /\ ops = <<>>
    /\ SkipIdle
    /\ TrieIdle

\* solve_recursive, Finished, with the branching vertex of branching-degree
BranchOnPicked ==
    /\ Returned("Finished")
    /\ \E take_first \in BOOLEAN : BranchOn(pick_branching_node(inst), take_first)

\* solve is called again on the instance with the same settings and another
\* seed; the hitting set the first run returned is kept in answer
SolveAgain ==
    /\ SolveReturned
    /\ answer = Idle
    /\ answer' = [op |-> "solve", minimum_hs |-> solver.minimum_hs]
    /\ inst' = inst0
    /\ solver' = SolveState(solver.settings, inst0)
    /\ UNCHANGED <<sv, svStack, inst0, ops, trie, inserted>>

NextOrder ==
    \/ ReduceEnter
    \/ ReducePass
    \/ MatchSolved
    \/ MatchUnsolvable
    \/ MatchStop
    \/ BranchOnPicked
    \/ BranchCall
    \/ BranchReturn
    \/ RestoreBatch
    \/ SolveAgain

SpecOrder == InitOrder /\ [][NextOrder]_vars

\* The second run has returned
SolvedAgain == solver # Idle /\ SolveReturned /\ answer # Idle

PassBreakpoints ==
    IF solver = Idle THEN {}
    ELSE {<<d, k>> \in (1..Len(solver.stack)) \X (1..2) :
             /\ solver.stack[d].fn = "solve_recursive"
             /\ k <= Len(solver.stack[d].breakpoints)}

BreakpointAt(at) == solver.stack[at[1]].breakpoints[at[2]]

====
